---- MODULE Spec2Model ----
(***************************************************************************)
(* Model of the grid simulation and analysis engine of voltage4:           *)
(* the rolling window and the anomaly detectors (src/lib/anomaly.ts), the  *)
(* smart-meter load cache (src/lib/smart-meter.ts) and the per-city        *)
(* orchestrator (src/lib/realtime-store.ts).                               *)
(*                                                                         *)
(* Units.  Time is in seconds (the code's Date.now() milliseconds / 1000;  *)
(* every duration the code compares is a whole number of seconds).  Power  *)
(* is in units of 0.1 kW, so 0.1 kW = 1, 0.2 kW = 2, 0.5 kW = 5,           *)
(* 8 kW = 80 and 10 kW = 100.  Math.random() is a nondeterministic choice  *)
(* from a small sample set.                                                *)
(***************************************************************************)
EXTENDS Integers, Sequences, FiniteSets, TLC

VARIABLES
    now,            \* the wall clock, Date.now(), in seconds
    window,         \* a RollingWindowStats: [values, timestamps]
    added,          \* every (value, timestamp) pair passed to add(), in order
    spikeCounter,   \* SpikeDetector.spikeCounter
    outageStart,    \* OutageDetector.outageStart (null or a time)
    overdrawStart,  \* SustainedOverdrawDetector.overdrawStart (null or a time)
    mismatchStart,  \* MismatchDetector.mismatchStart (null or a time)
    detLog,         \* the detect() calls made so far, with what each returned
    loadCache,      \* SmartMeter.loadCache of one meter: cache key -> loadKw
    meterLog,       \* the instantaneous readings returned so far
    sampleCall,     \* the last sample generateLoads built: its time and base profile
    bghiCall,       \* the last calculateBGHI call: its components and its result
    summaryCall,    \* the last aggregateSummary call: its metrics and its result
    sheddingCall,   \* the last generateLoadSheddingPlan call: its inputs and its plan
    hourlyBaseline, \* EWMAForecaster.hourlyBaseline: hour -> kW (empty when unset)
    forecastCall,   \* the last forecast24h call: its arguments and its outcome
    alertCall,      \* the last assessOverloadRisk call: its result
    cityCreated,    \* whether store.cities holds the city's state
    tstate,         \* cityState.transformers: id -> TransformerState
    hstate,         \* cityState.households: id -> HouseholdState
    meters,         \* the smart-meter store: meter id -> its loadCache
    calls,          \* getDashboardData calls waiting for the weather lookup
    resp,           \* the response of the last getDashboardData call to return
    lastTrigger,    \* per transformer, the last outage trigger not yet cleared
    lastCheck,      \* the last isTransformerInArtificialOutage call
    lastResult,     \* the success flag returned by the last control operation
    nCalls,         \* getDashboardData calls begun
    nOps,           \* control operations and checks made
    unsupported     \* a city without topology: its store entry and its calls' outcomes

detVars == <<window, added, spikeCounter, outageStart, overdrawStart, mismatchStart, detLog>>
meterVars == <<loadCache, meterLog, sampleCall>>
forecastVars == <<hourlyBaseline, forecastCall, alertCall>>
scoreVars == <<bghiCall, summaryCall, sheddingCall, forecastVars>>
cityVars == <<cityCreated, tstate, hstate, meters, calls, resp, lastTrigger, lastCheck,
              lastResult, nCalls, nOps, unsupported>>
vars == <<now, detVars, meterVars, scoreVars, cityVars>>

\* An optional value (null or a value) is a sequence of length 0 or 1.
None == <<>>
Some(x) == <<x>>

----------------------------------------------------------------------------
(* Bounds of the model *)

\* the capacity the rolling window is constructed with
WindowSize == 3
\* number of add() calls explored on one window
MaxAdds == 5
\* number of detect() calls explored on one detector
MaxCalls == 4
\* the clock of the detector specifications stops advancing here
MaxDetTime == 150
\* number of instantaneous readings explored on one meter
MaxReads == 3
\* getDashboardData calls and control operations explored
MaxTicks == 1
MaxOps == 2
\* the wall-clock horizons explored, in seconds
MaxOutageTime == 61
MaxClock == 61
\* getDashboardData calls of one city made, all of which may be in flight
MaxInFlight == 2
\* ticks and wall-clock horizon explored for the anomaly log
MaxLogTicks == 3
MaxLogTime == 172802
\* ticks explored for the substation
MaxSubTicks == 2
\* wall-clock horizons explored for the overdraw and the mismatch detector
MaxOverdrawTime == 1200
MaxMismatchTime == 3600
\* ticks and clock horizon (seconds) of the override-expiry specification
MaxOverrideTicks == 2
MaxOverrideTime == 61
\* copies of one transformer in the list given to aggregateSummary
MaxCopies == 9

(* Program constants *)

\* OutageDetector: outageThresholdKw = 0.1, minDurationSeconds = 60
OutageThresholdKw == 1
OutageMinDurationSeconds == 60
\* SpikeDetector: zThreshold = 3.0, persistenceSamples = 2, absoluteMinKw = 10.0
ZThreshold == 3
PersistenceSamples == 2
AbsoluteMinKw == 100
\* SustainedOverdrawDetector: minDurationSeconds = 600
OverdrawMinDurationSeconds == 600
\* MismatchDetector: minDurationSeconds = 1800; feeder readings below 0.5 kW
\* are ignored
MismatchMinDurationSeconds == 1800
FeederMinKw == 5
\* realtime-store: REFRESH_INTERVAL_SECONDS, MAX_HISTORY_MS (24 h, in seconds),
\* and the capacity of a transformer's rolling window
REFRESH_INTERVAL_SECONDS == 15
MAX_HISTORY == 86400
StoreWindowSize == 120
\* SmartMeter: DEFAULT_MIN_KW = 0.2, DEFAULT_MAX_KW = 8
MinKw == 2
MaxKw == 80

----------------------------------------------------------------------------
(* Helpers *)

RECURSIVE SeqSum(_)
SeqSum(s) == IF s = <<>> THEN 0 ELSE Head(s) + SeqSum(Tail(s))

Max(a, b) == IF a >= b THEN a ELSE b
Min(a, b) == IF a <= b THEN a ELSE b

\* secondsBetween(start, end) = max(0, end - start)
secondsBetween(start, end) == Max(0, end - start)

\* Number(x.toFixed(k)) for x = num/den in units of 10^-k (den > 0): the
\* nearest integer number of units, a half rounding away from zero
toFixed(x) ==
    IF x.num < 0 THEN 0 - ((2 * (0 - x.num) + x.den) \div (2 * x.den))
    ELSE (2 * x.num + x.den) \div (2 * x.den)

----------------------------------------------------------------------------
(* RollingWindowStats *)

EmptyWindow == [values |-> <<>>, timestamps |-> <<>>]

\* add(value, timestamp) on a window constructed with capacity windowSize:
\* push both, and shift both when over capacity
RollingAdd(w, windowSize, value, timestamp) ==
    LET vs == Append(w.values, value)
        ts == Append(w.timestamps, timestamp)
    IN  IF Len(vs) > windowSize
        THEN [values |-> Tail(vs), timestamps |-> Tail(ts)]
        ELSE [values |-> vs, timestamps |-> ts]

\* A plausible slip: the overflow drops the sample just pushed, not the oldest.
WindowAddDropNewest(w, value, timestamp) ==
    LET vs == Append(w.values, value)
        ts == Append(w.timestamps, timestamp)
    IN  IF Len(vs) > WindowSize
        THEN [values |-> SubSeq(vs, 1, Len(vs) - 1),
              timestamps |-> SubSeq(ts, 1, Len(ts) - 1)]
        ELSE [values |-> vs, timestamps |-> ts]

\* add(value, timestamp) on the window under test, of capacity WindowSize
WindowAdd(w, value, timestamp) == RollingAdd(w, WindowSize, value, timestamp)

\* Sum over the window of (n*x - S)^2, where S is the sum and n the size:
\* n^2 * (n-1) times the sample variance.
RECURSIVE SqDev(_, _, _)
SqDev(s, n, S) ==
    IF s = <<>> THEN 0
    ELSE (n * Head(s) - S) * (n * Head(s) - S) + SqDev(Tail(s), n, S)

\* value > mean() + z * std(), in exact integer arithmetic.  mean() is 0 on an
\* empty window and std() is 0 on fewer than two samples.
AboveMeanPlusZStd(value, vals, z) ==
    LET n == Len(vals)
        S == SeqSum(vals)
    IN  IF n = 0 THEN value > 0
        ELSE IF n = 1 THEN value > S
        ELSE /\ n * value - S > 0
             /\ (n * value - S) * (n * value - S) * (n - 1) > z * z * SqDev(vals, n, S)

\* mean(): 0 on an empty window, else the sum over the size, as a fraction
mean(w) ==
    IF Len(w.values) = 0 THEN [num |-> 0, den |-> 1]
    ELSE [num |-> SeqSum(w.values), den |-> Len(w.values)]

\* std() squared: 0 on fewer than two samples, else the sample variance (the
\* squared deviations over n - 1), as a fraction; std() is its square root,
\* so std() is 0 exactly when this is 0
stdSquared(w) ==
    IF Len(w.values) <= 1 THEN [num |-> 0, den |-> 1]
    ELSE [num |-> SqDev(w.values, Len(w.values), SeqSum(w.values)),
          den |-> Len(w.values) * Len(w.values) * (Len(w.values) - 1)]

\* min() and max(): 0 on an empty window
windowMin(w) ==
    IF Len(w.values) = 0 THEN 0
    ELSE CHOOSE v \in {w.values[i] : i \in DOMAIN w.values} :
             \A i \in DOMAIN w.values : v <= w.values[i]
windowMax(w) ==
    IF Len(w.values) = 0 THEN 0
    ELSE CHOOSE v \in {w.values[i] : i \in DOMAIN w.values} :
             \A i \in DOMAIN w.values : v >= w.values[i]

\* latest(): this.values[this.values.length - 1], which is undefined (None)
\* on an empty window
latest(w) == IF Len(w.values) = 0 THEN None ELSE Some(w.values[Len(w.values)])

\* value = mean() + z * std(), in exact integer arithmetic
AtMeanPlusZStd(value, vals, z) ==
    LET n == Len(vals)
        S == SeqSum(vals)
    IN  IF n = 0 THEN value = 0
        ELSE IF n = 1 THEN value = S
        ELSE /\ n * value - S >= 0
             /\ (n * value - S) * (n * value - S) * (n - 1) = z * z * SqDev(vals, n, S)

----------------------------------------------------------------------------
(* SpikeDetector *)

\* A plausible slip: a value at the threshold counts as a breach.
SpikeBreachAtThreshold(value, w) ==
    /\ value >= AbsoluteMinKw
    /\ \/ AboveMeanPlusZStd(value, w.values, ZThreshold)
       \/ AtMeanPlusZStd(value, w.values, ZThreshold)

\* currentValue > max(absoluteMinKw, mean + zThreshold * std)
SpikeBreach(value, w) ==
    value > AbsoluteMinKw /\ AboveMeanPlusZStd(value, w.values, ZThreshold)

\* A plausible slip: the counter is not reset after a firing.
SpikeDetectNoReset(counter, value, w) ==
    LET c == IF SpikeBreach(value, w) THEN counter + 1 ELSE 0
    IN  [counter |-> c, fired |-> c >= PersistenceSamples]

\* detect(currentValue, rollingStats): the new counter and whether an anomaly
\* is returned
SpikeDetect(counter, value, w) ==
    LET c == IF SpikeBreach(value, w) THEN counter + 1 ELSE 0
    IN  IF c >= PersistenceSamples
        THEN [counter |-> 0, fired |-> TRUE]
        ELSE [counter |-> c, fired |-> FALSE]

----------------------------------------------------------------------------
(* OutageDetector *)

\* A plausible slip: a reading at or above the threshold leaves outageStart.
OutageDetectNoRecovery(start, value, t) ==
    IF value < OutageThresholdKw
    THEN LET s == IF start = None THEN t ELSE start[1]
         IN  [start |-> Some(s),
              fired |-> secondsBetween(s, t) >= OutageMinDurationSeconds]
    ELSE [start |-> start, fired |-> FALSE]

\* A plausible slip: the duration must exceed minDurationSeconds.
OutageDetectAfterDeadline(start, value, t) ==
    IF value < OutageThresholdKw
    THEN LET s == IF start = None THEN t ELSE start[1]
         IN  [start |-> Some(s),
              fired |-> secondsBetween(s, t) > OutageMinDurationSeconds]
    ELSE [start |-> None, fired |-> FALSE]

\* detect(currentValue) at wall-clock time t: the new outageStart and whether
\* an anomaly is returned
OutageDetect(start, value, t) ==
    IF value < OutageThresholdKw
    THEN LET s == IF start = None THEN t ELSE start[1]
         IN  [start |-> Some(s),
              fired |-> secondsBetween(s, t) >= OutageMinDurationSeconds]
    ELSE [start |-> None, fired |-> FALSE]

----------------------------------------------------------------------------
(* SmartMeter *)

\* truncateToInterval(date, intervalSeconds)
truncateToInterval(t, intervalSeconds) == (t \div intervalSeconds) * intervalSeconds

\* The loads generateLoads can produce for one sample: the clamp keeps every
\* load within [minKw, maxKw]; the two ends are the samples explored.
GeneratedLoads == {MinKw, MaxKw}

\* cache.set(key, load)
CacheSet(cache, key, load) ==
    [k \in DOMAIN cache \cup {key} |-> IF k = key THEN load ELSE cache[k]]

\* generateLoads(1, startTime) whose one sample came out as `load`: the sample
\* is stored under the key of startTime
generateLoads1(cache, startTime, load) == CacheSet(cache, startTime, load)

\* generateInstantaneousLoad(timestamp, cacheIntervalSeconds), where `load` is
\* what generateLoads produces if it is reached: the reading returned and the
\* cache afterwards
generateInstantaneousLoad(cache, timestamp, cacheIntervalSeconds, load) ==
    LET bucketedTimestamp == truncateToInterval(timestamp, cacheIntervalSeconds)
    IN  IF bucketedTimestamp \in DOMAIN cache
        THEN [timestamp |-> bucketedTimestamp,
              loadKw |-> cache[bucketedTimestamp],
              cache |-> cache]
        ELSE LET c1 == generateLoads1(cache, truncateToInterval(timestamp, 60), load)
             IN  [timestamp |-> bucketedTimestamp,
                  loadKw |-> load,
                  cache |-> CacheSet(c1, bucketedTimestamp, load)]

\* Date.getDay() of a timestamp (seconds since 1970-01-01, a Thursday; local
\* time is taken to be UTC): 0 = Sunday, 1 = Monday, ..., 6 = Saturday
getDay(timestamp) == ((timestamp \div 86400) + 4) % 7

\* if (timestamp.getDay() >= 5): whether generateLoads multiplies the sample's
\* base profile by the weekend factor
weekendDampened(timestamp) == getDay(timestamp) >= 5

\* the base profile of a sample after the weekend test: baseKw + dailyProfile
\* (`profile`, in W), multiplied on a dampened day by randomUniform(0.6, 0.9)
\* (`factor`, in thousandths)
baseProfileOf(timestamp, profile, factor) ==
    IF weekendDampened(timestamp) THEN (profile * factor) \div 1000 ELSE profile

EmptyCache == [k \in {} |-> 0]

----------------------------------------------------------------------------
(* The orchestrator: topology and city state (realtime-store.ts, csv-data.ts) *)

\* The rows of the city's CSV file, the input of loadCsvTransformers: a
\* substation with thirty buildings downstream and two pole transformers,
\* with two buildings and one.
Csv ==
    << [EntityType |-> "SubstationTransformer", ID |-> "S1", NumDownstreamBuildings |-> 30],
       [EntityType |-> "PolePadTransformer", ID |-> "T1", NumDownstreamBuildings |-> 2],
       [EntityType |-> "PolePadTransformer", ID |-> "T2", NumDownstreamBuildings |-> 1] >>

TransformerIds == {Csv[i].ID : i \in DOMAIN Csv}
CsvRow(id) == CHOOSE r \in {Csv[i] : i \in DOMAIN Csv} : r.ID = id

\* generateHouseholdsAroundTransformer: household i of transformer T has id
\* `household-T-i` and takes its first load from the meter `building-T-i`
householdId(id, i) == <<"household", id, i>>
buildingId(id, i) == <<"building", id, i>>

\* processCSVData: households are generated for PolePadTransformer rows only,
\* NumDownstreamBuildings of them; a transformer's households are those whose
\* transformerId is its ID
generatedHouseholds(row) ==
    IF row.EntityType = "PolePadTransformer"
    THEN [i \in 1..row.NumDownstreamBuildings |-> householdId(row.ID, i - 1)]
    ELSE <<>>

AllHouseholds ==
    UNION {{generatedHouseholds(Csv[r])[i] : i \in DOMAIN generatedHouseholds(Csv[r])}
           : r \in DOMAIN Csv}

\* the transformerId field generateHouseholdsAroundTransformer gives a household
generatedFor(h) == h[2]

transformerHouseholds(row) ==
    SelectSeq(generatedHouseholds(row), LAMBDA h : generatedFor(h) = row.ID)

\* A plausible slip: the floor of 100 kW is missing.
capacityOfBuildings(row) == row.NumDownstreamBuildings * 50

\* capacityKw = max(100, NumDownstreamBuildings * 5), in 0.1 kW
capacityOf(row) == Max(1000, row.NumDownstreamBuildings * 50)

(* Artificial outage and disaster records.  A duration of 0 stands for the  *)
(* absent duration: the code stores undefined for a missing or zero         *)
(* durationMinutes and tests `duration &&` before comparing.                *)

\* A plausible slip: a missing duration counts as a duration of zero.
OutageExpiredNoDuration(ao, t) == t - ao[1].startTime > ao[1].duration

\* A plausible slip: the record expires at the deadline, not after it.
OutageExpiredAtDeadline(ao, t) ==
    ao[1].duration # 0 /\ t - ao[1].startTime >= ao[1].duration

\* duration && elapsedTime > duration
OutageExpired(ao, t) ==
    ao[1].duration # 0 /\ t - ao[1].startTime > ao[1].duration

\* isTransformerInArtificialOutage at wall-clock time t: the answer and the
\* artificialOutage field afterwards
isTransformerInArtificialOutage(ao, t) ==
    IF ao = None THEN [active |-> FALSE, artificialOutage |-> None]
    ELSE IF OutageExpired(ao, t) THEN [active |-> FALSE, artificialOutage |-> None]
    ELSE [active |-> TRUE, artificialOutage |-> ao]

\* A plausible slip: an expired disaster is reported as inactive but its record
\* is left on the transformer.
getActiveArtificialDisasterKeepsRecord(ad, t) ==
    IF ad = None THEN [disaster |-> None, artificialDisaster |-> None]
    ELSE IF ad[1].duration # 0 /\ t - ad[1].startTime > ad[1].duration
         THEN [disaster |-> None, artificialDisaster |-> ad]
    ELSE [disaster |-> ad, artificialDisaster |-> ad]

\* getActiveArtificialDisaster at wall-clock time t: the disaster returned and
\* the artificialDisaster field afterwards
getActiveArtificialDisaster(ad, t) ==
    IF ad = None THEN [disaster |-> None, artificialDisaster |-> None]
    ELSE IF ad[1].duration # 0 /\ t - ad[1].startTime > ad[1].duration
         THEN [disaster |-> None, artificialDisaster |-> None]
    ELSE [disaster |-> ad, artificialDisaster |-> ad]

\* durationMinutes ? durationMinutes * 60 * 1000 : undefined, in seconds
durationOf(durationMinutes) == IF durationMinutes # 0 THEN durationMinutes * 60 ELSE 0

DisasterKinds == {"heatwave", "typhoon", "earthquake", "brownout", "cyberattack", "custom"}

\* params.name ?? default.  Factors and probabilities are in percent,
\* mismatchBias in thousandths.
Param(params, name, default) == IF name \in DOMAIN params THEN params[name] ELSE default

NoParams == [k \in {} |-> 0]

\* applyArtificialDisasterEffects(disaster, baseLoadKw, transformerCapacityKw),
\* where r1 and r2 are the values (in percent) of the first and the second
\* Math.random() call it makes.  Loads are floored to 0.1 kW.  mismatchBias is
\* None when the effect carries no number.
applyArtificialDisasterEffects(disaster, baseLoadKw, capacityKw, r1, r2) ==
    LET params == disaster.parameters
        kind == disaster.kind
    IN  CASE kind = "heatwave" ->
               LET multiplier == Param(params, "loadMultiplier", 135)
                   variability == Param(params, "variability", 8)
                   variation == 10000 + (r1 - 50) * variability * 2
                   adjusted == Min((capacityKw * 13) \div 10,
                                   (baseLoadKw * multiplier * variation) \div 1000000)
               IN  [loadKw |-> Max(0, adjusted), forceOutage |-> FALSE,
                    mismatchBias |-> Some(Param(params, "mismatchBias", 50))]
          [] kind = "typhoon" ->
               LET outageChance == Param(params, "householdOutageChance", 25)
                   fluctuation == Param(params, "loadFluctuation", 50)
                   adjusted == (baseLoadKw * (5000 + r2 * fluctuation)) \div 10000
               IN  IF r1 < outageChance
                   THEN [loadKw |-> 0, forceOutage |-> FALSE,
                         mismatchBias |-> Some(Param(params, "mismatchBias", 150))]
                   ELSE [loadKw |-> Max(0, adjusted), forceOutage |-> FALSE,
                         mismatchBias |-> Some(Param(params, "mismatchBias", 150))]
          [] kind = "earthquake" ->
               LET damageSeverity == Min(100, Param(params, "damageSeverity", 80))
                   forceOutage == r1 < damageSeverity
                   capacityFraction == Max(0, 10000 - damageSeverity * 85)
                   adjusted == IF forceOutage THEN 0
                               ELSE (baseLoadKw * capacityFraction) \div 10000
               IN  [loadKw |-> Max(0, adjusted), forceOutage |-> forceOutage,
                    mismatchBias |-> Some(Param(params, "mismatchBias",
                                                IF forceOutage THEN 250 ELSE 100))]
          [] kind = "brownout" ->
               LET reduction == Min(100, Param(params, "loadReduction", 50))
                   variability == Param(params, "variability", 20)
                   adjusted == (baseLoadKw * Max(0, 100 - reduction)
                                * (9000 + r1 * variability)) \div 1000000
               IN  [loadKw |-> Max(0, adjusted), forceOutage |-> FALSE,
                    mismatchBias |-> Some(Param(params, "mismatchBias", 50))]
          [] kind = "cyberattack" ->
               LET spikeMultiplier == Param(params, "spikeMultiplier", 160)
                   jitter == Param(params, "jitter", 70)
                   adjusted == (baseLoadKw * spikeMultiplier
                                * (8000 + r1 * jitter)) \div 1000000
               IN  [loadKw |-> Max(0, adjusted), forceOutage |-> FALSE,
                    mismatchBias |-> Some(Param(params, "mismatchBias", 250))]
          [] OTHER ->
               LET multiplier == Param(params, "loadMultiplier", 100)
                   adjusted == (baseLoadKw * multiplier) \div 100
               IN  [loadKw |-> Max(0, adjusted),
                    forceOutage |-> Param(params, "forceOutage", 0) > 0,
                    mismatchBias |-> IF "mismatchBias" \in DOMAIN params
                                     THEN Some(params.mismatchBias) ELSE None]

(* Detectors used by the orchestrator besides the spike and outage detectors *)

\* A plausible slip: the start of the episode survives a call that is not over
\* the threshold.
OverdrawDetectNoReset(start, rollingMean, baseline, t) ==
    IF 10 * rollingMean.num * baseline.den > 12 * baseline.num * rollingMean.den
    THEN LET s == IF start = None THEN t ELSE start[1]
         IN  [start |-> Some(s),
              fired |-> secondsBetween(s, t) >= OverdrawMinDurationSeconds]
    ELSE [start |-> start, fired |-> FALSE]

\* SustainedOverdrawDetector.detect(rollingMeanKw, baselineHourlyMean) at time
\* t.  Both means are fractions [num, den]; rollingMeanKw > baseline * 1.2 is
\* compared exactly.
OverdrawDetect(start, rollingMean, baseline, t) ==
    IF 10 * rollingMean.num * baseline.den > 12 * baseline.num * rollingMean.den
    THEN LET s == IF start = None THEN t ELSE start[1]
         IN  [start |-> Some(s),
              fired |-> secondsBetween(s, t) >= OverdrawMinDurationSeconds]
    ELSE [start |-> None, fired |-> FALSE]

\* A plausible slip: the feeder floor is not tested.
MismatchDetectNoFloor(start, feeder1e4, sumNodePower, t) ==
    LET diff == feeder1e4 - sumNodePower * 10000
        absDiff == IF diff < 0 THEN 0 - diff ELSE diff
    IN  IF absDiff * 100 >= 12 * feeder1e4
        THEN LET s == IF start = None THEN t ELSE start[1]
             IN  [start |-> Some(s),
                  fired |-> secondsBetween(s, t) >= MismatchMinDurationSeconds]
        ELSE [start |-> None, fired |-> FALSE]

\* MismatchDetector.detect(feederPower, sumNodePower) at time t, with
\* feederPower given as feeder1e4 = 10^4 * feederPower
MismatchDetect(start, feeder1e4, sumNodePower, t) ==
    IF feeder1e4 < FeederMinKw * 10000 THEN [start |-> start, fired |-> FALSE]
    ELSE LET diff == feeder1e4 - sumNodePower * 10000
             absDiff == IF diff < 0 THEN 0 - diff ELSE diff
         IN  IF absDiff * 100 >= 12 * feeder1e4
             THEN LET s == IF start = None THEN t ELSE start[1]
                  IN  [start |-> Some(s),
                       fired |-> secondsBetween(s, t) >= MismatchMinDurationSeconds]
             ELSE [start |-> None, fired |-> FALSE]

(* City state *)

\* getSmartMeterReading(meterId, timestamp, cacheIntervalSeconds): the meter is
\* created on first use; `load` is what its generator produces on a miss
getSmartMeterReading(ms, meterId, timestamp, interval, load) ==
    LET cache == IF meterId \in DOMAIN ms THEN ms[meterId] ELSE EmptyCache
        r == generateInstantaneousLoad(cache, timestamp, interval, load)
    IN  [timestamp |-> r.timestamp, loadKw |-> r.loadKw,
         meters |-> [m \in DOMAIN ms \cup {meterId} |->
                        IF m = meterId THEN r.cache ELSE ms[m]]]

\* calculateTransformerLoad: 0 for a substation, else the sum of the loads of
\* the households connected to the transformer
calculateTransformerLoad(row, loads) ==
    IF row.EntityType = "SubstationTransformer" THEN 0
    ELSE SeqSum([i \in DOMAIN transformerHouseholds(row) |->
                    loads[transformerHouseholds(row)[i]]])

\* The TransformerState initializeCityState builds at time t for a CSV row,
\* given the first load of every household
initialTransformerState(row, loads, t) ==
    LET totalLoad == calculateTransformerLoad(row, loads)
    IN  [ID |-> row.ID,
         EntityType |-> row.EntityType,
         householdIds |-> transformerHouseholds(row),
         rollingStats |-> RollingAdd(EmptyWindow, StoreWindowSize, totalLoad, t),
         spikeCounter |-> 0,
         overdrawStart |-> None,
         outageStart |-> None,
         mismatchStart |-> None,
         history |-> <<[timestamp |-> t, loadKw |-> totalLoad]>>,
         anomalies |-> <<>>,
         spikeEvents |-> <<>>,
         outageFlags |-> <<[timestamp |-> t, isOutage |-> totalLoad < OutageThresholdKw]>>,
         mismatchRatios |-> <<>>,
         capacityKw |-> capacityOf(row),
         lastUpdated |-> t,
         artificialOutage |-> None,
         artificialDisaster |-> None]

initialHouseholdState(h, loads, t) ==
    [id |-> h,
     transformerId |-> generatedFor(h),
     latestLoadKw |-> loads[h],
     loadHistory |-> <<[timestamp |-> t, loadKw |-> loads[h]]>>]

\* A plausible slip: nothing is dropped from the list.
pruneHistoryKeepsAll(items, t) == items

\* pruneHistory(items) at wall-clock time t
pruneHistory(items, t) == SelectSeq(items, LAMBDA x : x.timestamp >= t - MAX_HISTORY)

\* pruneOldAnomalies(anomalies) at wall-clock time t
pruneOldAnomalies(anomalies, t) ==
    SelectSeq(anomalies, LAMBDA a : a.timestamp >= t - MAX_HISTORY)

\* the loadKw values of a history, in order
LoadsOf(history) == [i \in DOMAIN history |-> history[i].loadKw]

\* computeRollingMean(history, durationMinutes) at time t, as a fraction
computeRollingMean(history, durationMinutes, t) ==
    IF Len(history) = 0 THEN [num |-> 0, den |-> 1]
    ELSE LET samples == SelectSeq(history,
                                  LAMBDA x : x.timestamp >= t - durationMinutes * 60)
         IN  IF Len(samples) = 0
             THEN [num |-> history[Len(history)].loadKw, den |-> 1]
             ELSE [num |-> SeqSum(LoadsOf(samples)), den |-> Len(samples)]

\* Date.getHours() of a time in seconds
HourOf(t) == (t \div 3600) % 24

\* computeHourlyBaseline(history) at time t, as a fraction
computeHourlyBaseline(history, t) ==
    IF Len(history) = 0 THEN [num |-> 0, den |-> 1]
    ELSE LET sameHour == SelectSeq(history, LAMBDA x : HourOf(x.timestamp) = HourOf(t))
         IN  IF Len(sameHour) = 0
             THEN [num |-> history[Len(history)].loadKw, den |-> 1]
             ELSE [num |-> SeqSum(LoadsOf(sameHour)), den |-> Len(sameHour)]

\* computeOutageMinutes(outageFlags) at time t, in quarters of a minute (the
\* code multiplies the count by REFRESH_INTERVAL_SECONDS / 60 = 0.25)
computeOutageMinutes4(outageFlags, t) ==
    Len(SelectSeq(outageFlags, LAMBDA f : f.timestamp >= t - MAX_HISTORY /\ f.isOutage))

(* One tick of one transformer.  `d` holds the values of the tick's random    *)
(* draws: d.load[h] the load a meter generates on a cache miss, d.r1[h] and   *)
(* d.r2[h] the Math.random() calls of the disaster effect of household h,     *)
(* d.noise[id] the Math.random() call of the transformer's feeder reading     *)
(* (all in percent).                                                          *)

\* A plausible slip: the test on the outage is inverted.
UsesDisasterInOutage(isInOutage, activeDisaster) == isInOutage /\ activeDisaster # None

\* !isInOutage && activeDisaster
UsesDisaster(isInOutage, activeDisaster) == ~isInOutage /\ activeDisaster # None

\* A plausible slip: the meter reading is kept during an artificial outage.
outageLoadKept(isInOutage, loadKw) == loadKw

\* let householdLoad = isInOutage ? 0 : reading.loadKw
outageLoad(isInOutage, loadKw) == IF isInOutage THEN 0 ELSE loadKw

\* the value of an expression computed once: the element of a one-element set
TheOne(S) == CHOOSE x \in S : TRUE

\* The householdLoad of one household and what its disaster effect reports:
\* the reading, zeroed in an outage, goes through the disaster effect only
\* when no outage is active and a disaster is.
householdEffect(isInOutage, activeDisaster, loadKw, capacityKw, r1, r2) ==
    IF UsesDisaster(isInOutage, activeDisaster)
    THEN applyArtificialDisasterEffects(activeDisaster[1], outageLoad(isInOutage, loadKw),
                                        capacityKw, r1, r2)
    ELSE [loadKw |-> outageLoad(isInOutage, loadKw), forceOutage |-> FALSE,
          mismatchBias |-> None]

\* The end of the body of households.forEach: the household's latestLoadKw and
\* loadHistory are stored and the locals transformerLoadKw,
\* forcedDisasterOutage and disasterMismatchBias updated.
householdStore(acc, h, reading, effect, t) ==
    [households |->
        [acc.households EXCEPT ![h] =
            [@ EXCEPT !.latestLoadKw = effect.loadKw,
                      !.loadHistory =
                          pruneHistory(Append(@, [timestamp |-> reading.timestamp,
                                                  loadKw |-> effect.loadKw]), t)]],
     meters |-> reading.meters,
     transformerLoadKw |-> acc.transformerLoadKw + effect.loadKw,
     forcedDisasterOutage |-> acc.forcedDisasterOutage \/ effect.forceOutage,
     disasterMismatchBias |->
        IF effect.mismatchBias # None
        THEN Max(acc.disasterMismatchBias, effect.mismatchBias[1])
        ELSE acc.disasterMismatchBias]

\* The body of households.forEach for household h; acc carries the household
\* and meter maps and the locals.
householdStep(acc, h, isInOutage, activeDisaster, capacityKw, timestamp, t, d) ==
    TheOne({TheOne({householdStore(acc, h, reading, effect, t) :
                      effect \in {householdEffect(isInOutage, activeDisaster,
                                                  reading.loadKw, capacityKw,
                                                  d.r1[h], d.r2[h])}}) :
              reading \in {getSmartMeterReading(acc.meters, h, timestamp,
                                                REFRESH_INTERVAL_SECONDS, d.load[h])}})

\* households.forEach over the transformer's householdIds, in order
RECURSIVE householdPass(_, _, _, _, _, _, _, _)
householdPass(ids, acc, isInOutage, activeDisaster, capacityKw, timestamp, t, d) ==
    IF ids = <<>> THEN acc
    ELSE TheOne({householdPass(Tail(ids), a, isInOutage, activeDisaster, capacityKw,
                               timestamp, t, d) :
                   a \in {householdStep(acc, Head(ids), isInOutage, activeDisaster,
                                        capacityKw, timestamp, t, d)}})

\* A plausible slip: a forced disaster outage does not zero the reported load.
reportedLoadNotForced(sum, forcedDisasterOutage) == sum

\* if (forcedDisasterOutage) transformerLoadKw = 0
reportedLoad(sum, forcedDisasterOutage) == IF forcedDisasterOutage THEN 0 ELSE sum

\* if (anomalies.length) { push(...anomalies); prune }
anomalyLog(log, found, t) ==
    IF Len(found) > 0 THEN pruneOldAnomalies(log \o found, t) ELSE log

\* A plausible slip: the feeder noise is +/-50 % instead of +/-5 %.
feederPowerWide1e4(transformerLoadKw, noise) ==
    transformerLoadKw * (10000 + (noise - 50) * 100)

\* feederPowerKw = transformerLoadKw * (1 + (Math.random() - 0.5) * 0.1), times
\* 10^4, where noise is the value of Math.random() in percent
feederPower1e4(transformerLoadKw, noise) ==
    transformerLoadKw * (10000 + (noise - 50) * 10)

\* A plausible slip: detect is called before the sample is added, so it sees
\* the window without the current value.
spikeWindowBeforeAdd(before, after) == before

\* the rollingStats handed to detectors.spike.detect: the window after
\* rollingStats.add(transformerLoadKw, timestamp)
spikeWindow(before, after) == after

\* The middle of updateTransformerState: the sample is appended to the history
\* and the rolling window, the means are computed, and the detectors and the
\* feeder reading are evaluated (the detectors' results are used for
\* PolePadTransformer only).  noise is the Math.random() of the feeder
\* reading, in percent.
detectorsStep(ts, transformerLoadKw, timestamp, t, noise) ==
    LET history == pruneHistory(Append(ts.history, [timestamp |-> timestamp,
                                                    loadKw |-> transformerLoadKw]), t)
        rollingStats == RollingAdd(ts.rollingStats, StoreWindowSize,
                                   transformerLoadKw, timestamp)
        feeder1e4 == feederPower1e4(transformerLoadKw, noise)
        diff == feeder1e4 - transformerLoadKw * 10000
    IN  [transformerLoadKw |-> transformerLoadKw,
         history |-> history,
         rollingStats |-> rollingStats,
         spike |-> SpikeDetect(ts.spikeCounter, transformerLoadKw,
                               spikeWindow(ts.rollingStats, rollingStats)),
         overdraw |-> OverdrawDetect(ts.overdrawStart,
                                     computeRollingMean(history, 10, t),
                                     computeHourlyBaseline(history, t), t),
         outage |-> OutageDetect(ts.outageStart, transformerLoadKw, t),
         mismatch |-> MismatchDetect(ts.mismatchStart, feeder1e4, transformerLoadKw, t),
         ratio |-> ((IF diff < 0 THEN 0 - diff ELSE diff) * 1000)
                   \div Max(FeederMinKw * 10000, feeder1e4)]

\* loadPercentage = (transformerLoadKw / capacityKw) * 100, reported with one
\* decimal: in tenths of a percent
loadPercentageOf(transformerLoadKw, capacityKw) ==
    toFixed([num |-> transformerLoadKw * 1000, den |-> capacityKw])

\* A plausible slip: the detectors' results are used for every transformer.
detectsAnomaliesAlways(entityType) == TRUE

\* if (transformerState.transformer.EntityType === "PolePadTransformer")
detectsAnomalies(entityType) == entityType = "PolePadTransformer"

\* The end of updateTransformerState: the anomalies found are logged, the
\* mismatch ratio, outage flag and spike events recorded, and the metrics
\* assembled.  totalLoad is transformer.totalLoad, the unrounded
\* transformerLoadKw, and loadPercentage is in tenths of a percent; the locals
\* isInOutage and forcedDisasterOutage are recorded with the metrics.
recordStep(ts, outage, active, pass, det, timestamp, t) ==
    LET isPolePad == detectsAnomalies(ts.EntityType)
        found == IF isPolePad
                 THEN (IF det.spike.fired
                       THEN <<[anomalyType |-> "SPIKE", timestamp |-> t]>> ELSE <<>>)
                      \o (IF det.overdraw.fired
                          THEN <<[anomalyType |-> "SUSTAINED_OVERDRAW", timestamp |-> t]>>
                          ELSE <<>>)
                      \o (IF det.outage.fired
                          THEN <<[anomalyType |-> "OUTAGE", timestamp |-> t]>> ELSE <<>>)
                      \o (IF det.mismatch.fired
                          THEN <<[anomalyType |-> "METER_MISMATCH", timestamp |-> t]>>
                          ELSE <<>>)
                 ELSE <<>>
        pushed == pruneHistory(Append(ts.mismatchRatios, [timestamp |-> timestamp,
                                                          ratio |-> det.ratio]), t)
        biased == pass.disasterMismatchBias # 0 /\ Len(pushed) > 0
        mismatchRatios ==
            IF biased
            THEN [pushed EXCEPT ![Len(pushed)].ratio =
                                    Min(1000, @ + pass.disasterMismatchBias)]
            ELSE pushed
        effectiveOutage == outage.active \/ pass.forcedDisasterOutage
                           \/ det.transformerLoadKw < OutageThresholdKw
        outageFlags == pruneHistory(Append(ts.outageFlags,
                                           [timestamp |-> timestamp,
                                            isOutage |-> effectiveOutage]), t)
        anomalies == anomalyLog(ts.anomalies, found, t)
        spikeEvents ==
            SelectSeq(IF isPolePad /\ det.spike.fired
                      THEN Append(ts.spikeEvents, timestamp) ELSE ts.spikeEvents,
                      LAMBDA e : e >= t - MAX_HISTORY)
    IN  [state |->
            [ts EXCEPT !.artificialOutage = outage.artificialOutage,
                       !.artificialDisaster = active.artificialDisaster,
                       !.history = det.history,
                       !.rollingStats = det.rollingStats,
                       !.spikeCounter = IF isPolePad THEN det.spike.counter ELSE @,
                       !.overdrawStart = IF isPolePad THEN det.overdraw.start ELSE @,
                       !.outageStart = IF isPolePad THEN det.outage.start ELSE @,
                       !.mismatchStart = IF isPolePad THEN det.mismatch.start ELSE @,
                       !.mismatchRatios = mismatchRatios,
                       !.outageFlags = outageFlags,
                       !.anomalies = anomalies,
                       !.spikeEvents = spikeEvents,
                       !.lastUpdated = timestamp],
         households |-> pass.households,
         meters |-> pass.meters,
         metrics |->
            [ID |-> ts.ID,
             totalLoad |-> det.transformerLoadKw,
             loadPercentage |-> loadPercentageOf(det.transformerLoadKw, ts.capacityKw),
             householdLoads |-> [i \in DOMAIN ts.householdIds |->
                                    pass.households[ts.householdIds[i]].latestLoadKw],
             anomalies |-> anomalies,
             outageMinutes4 |-> computeOutageMinutes4(outageFlags, t),
             spikeEvents24h |-> Len(spikeEvents),
             mismatchRatio |-> IF biased THEN mismatchRatios[Len(pushed)].ratio
                               ELSE det.ratio,
             lastUpdated |-> timestamp,
             artificialOutageActive |-> effectiveOutage,
             artificialDisaster |-> IF active.disaster = None THEN "null"
                                    ELSE active.disaster[1].kind,
             isInOutage |-> outage.active,
             forcedDisasterOutage |-> pass.forcedDisasterOutage]]

\* updateTransformerState(transformerState, cityState, weather, timestamp) run
\* at wall-clock time t: the new transformer state, household and meter maps,
\* and the metrics returned.  Each stage is computed once and handed to the
\* next: the outage and disaster checks, the household loop, the detectors,
\* the records.
updateTransformerState(ts, households, ms, timestamp, t, d) ==
    TheOne({TheOne({TheOne({recordStep(ts, chk.outage, chk.active, pass, det,
                                       timestamp, t) :
                det \in {detectorsStep(ts, reportedLoad(pass.transformerLoadKw,
                                                        pass.forcedDisasterOutage),
                                       timestamp, t, d.noise[ts.ID])}}) :
            pass \in {householdPass(ts.householdIds,
                                    [households |-> households, meters |-> ms,
                                     transformerLoadKw |-> 0,
                                     forcedDisasterOutage |-> FALSE,
                                     disasterMismatchBias |-> 0],
                                    chk.outage.active, chk.active.disaster,
                                    ts.capacityKw, timestamp, t, d)}}) :
        chk \in {[outage |-> isTransformerInArtificialOutage(ts.artificialOutage, t),
                  active |-> getActiveArtificialDisaster(ts.artificialDisaster, t)]}})

\* cityState.transformers.forEach(updateTransformerState), in insertion (CSV)
\* order; acc carries the transformer, household and meter maps and the list
\* of metrics
RECURSIVE transformersPass(_, _, _, _, _)
transformersPass(ids, acc, timestamp, t, d) ==
    IF ids = <<>> THEN acc
    ELSE TheOne({transformersPass(
                    Tail(ids),
                    [transformers |-> [acc.transformers EXCEPT ![Head(ids)] = r.state],
                     households |-> r.households,
                     meters |-> r.meters,
                     metrics |-> Append(acc.metrics, r.metrics)],
                    timestamp, t, d) :
                   r \in {updateTransformerState(acc.transformers[Head(ids)],
                                                 acc.households, acc.meters,
                                                 timestamp, t, d)}})

----------------------------------------------------------------------------
(* Operations of the orchestrator on one supported city *)

\* values of Math.random() explored, in percent: one below and one above every
\* probability the default disaster parameters compare it with
RandomSamples == {0, 90}

\* CSV order of the transformer ids: the insertion order of the transformer map
TransformerOrder == [i \in DOMAIN Csv |-> Csv[i].ID]

\* The random draws of one tick.  Math.random() is called for a household
\* only inside a disaster effect (twice only by the typhoon effect, not at all
\* by the custom effect), and the feeder noise of a transformer without
\* households multiplies a load of 0; a draw that is not made or cannot
\* matter is fixed to the smallest sample.
Smallest(S) == CHOOSE x \in S : \A y \in S : x <= y

DrawnFor(h, kinds) ==
    /\ tstate[generatedFor(h)].artificialDisaster # None
    /\ tstate[generatedFor(h)].artificialDisaster[1].kind \in kinds

Draws(loadSamples, randomSamples, noiseSamples) ==
    [load : [AllHouseholds -> loadSamples],
     r1 : {f \in [AllHouseholds -> randomSamples] :
              \A h \in AllHouseholds :
                  ~DrawnFor(h, DisasterKinds \ {"custom"}) => f[h] = Smallest(randomSamples)},
     r2 : {f \in [AllHouseholds -> randomSamples] :
              \A h \in AllHouseholds :
                  ~DrawnFor(h, {"typhoon"}) => f[h] = Smallest(randomSamples)},
     noise : {f \in [TransformerIds -> noiseSamples] :
                 \A id \in TransformerIds :
                     tstate[id].householdIds = <<>> => f[id] = Smallest(noiseSamples)}]

NoResponse == [updatedAt |-> 0 - 1, transformers |-> <<>>, anomalyCount24h |-> 0,
               weather |-> "none"]

(* A city without topology.  The dashboard and the control operations take   *)
(* the city's name; the operations above are those of a city that has a CSV  *)
(* file.  For a city without one, `unsupported` holds whether store.cities   *)
(* has an entry for it, how many getDashboardData calls were made for it,    *)
(* how the last one ended, and the success flag of the last control          *)
(* operation for it.                                                          *)

\* the keys of CITY_FILE_MAP
CITY_FILE_MAP == {"Quezon City", "QC", "UP Diliman", "UPD"}

\* A plausible slip: a city without a file is loaded as a city without
\* transformers.
loadCsvTransformersOrNone(city) ==
    [threw |-> FALSE, rows |-> IF city \in CITY_FILE_MAP THEN Csv ELSE <<>>]

\* loadCsvTransformers(city): the rows of the city's CSV file, or the throw of
\* `Unsupported city` for a city that has none
loadCsvTransformers(city) ==
    IF city \in CITY_FILE_MAP
    THEN [threw |-> FALSE, rows |-> Csv]
    ELSE [threw |-> TRUE, rows |-> <<>>]

NoUnsupportedCity ==
    [inStore |-> FALSE, nCalls |-> 0, outcome |-> "none", opResult |-> None]

\* getDashboardData(city) for a city outside CITY_FILE_MAP: initializeCityState
\* returns the stored state if there is one; otherwise it loads the CSV rows,
\* and a throw of the loader leaves the function before store.cities.set and
\* rejects the call
GetDashboardDataUnsupported(city, maxCalls) ==
    /\ city \notin CITY_FILE_MAP
    /\ unsupported.nCalls < maxCalls
    /\ \E created \in {unsupported.inStore \/ ~loadCsvTransformers(city).threw} :
          unsupported' = [unsupported EXCEPT
                             !.inStore = created,
                             !.nCalls = @ + 1,
                             !.outcome = IF created THEN "response" ELSE "error"]
    /\ UNCHANGED <<now, detVars, meterVars, scoreVars, cityCreated, tstate, hstate, meters,
                   calls, resp, lastTrigger, lastCheck, lastResult, nCalls, nOps>>

\* the four control operations
ControlOperations ==
    {"triggerArtificialOutage", "clearArtificialOutage",
     "triggerArtificialDisaster", "clearArtificialDisaster"}

\* a control operation called with a transformer id for a city outside
\* CITY_FILE_MAP: `City not found` without a stored state, and `Transformer
\* not found` in a state without transformers
ControlOperationUnsupported(city, operation) ==
    /\ city \notin CITY_FILE_MAP
    /\ operation \in ControlOperations
    /\ unsupported' = [unsupported EXCEPT !.opResult = Some(FALSE)]
    /\ UNCHANGED <<now, detVars, meterVars, scoreVars, cityCreated, tstate, hstate, meters,
                   calls, resp, lastTrigger, lastCheck, lastResult, nCalls, nOps>>

CityInit ==
    /\ cityCreated = FALSE
    /\ tstate = <<>>
    /\ hstate = <<>>
    /\ meters = <<>>
    /\ calls = {}
    /\ resp = NoResponse
    /\ lastTrigger = [id \in TransformerIds |-> None]
    /\ lastCheck = None
    /\ lastResult = None
    /\ nCalls = 0
    /\ nOps = 0
    /\ unsupported = NoUnsupportedCity

\* initializeCityState on the first request: every household's first load is
\* read from its building meter (default 30 s bucket) at the current time
InitializeCityState(loadSamples) ==
    IF cityCreated
    THEN UNCHANGED <<cityCreated, tstate, hstate, meters>>
    ELSE \E loads \in [AllHouseholds -> loadSamples] :
            /\ cityCreated' = TRUE
            /\ tstate' = [id \in TransformerIds |->
                             initialTransformerState(CsvRow(id), loads, now)]
            /\ hstate' = [h \in AllHouseholds |-> initialHouseholdState(h, loads, now)]
            /\ meters' = [m \in {buildingId(h[2], h[3]) : h \in AllHouseholds} |->
                             LET h == householdId(m[2], m[3])
                             IN  getSmartMeterReading(<<>>, m, now, 30, loads[h]).meters[m]]

\* getDashboardData up to its await: the city state is created if missing and
\* the tick's timestamp is taken; the call then waits for the weather lookup
BeginGetDashboardData(maxTicks, maxInFlight, loadSamples) ==
    /\ nCalls < maxTicks
    /\ Cardinality(calls) < maxInFlight
    /\ InitializeCityState(loadSamples)
    /\ calls' = calls \cup {[call |-> nCalls + 1, timestamp |-> now]}
    /\ nCalls' = nCalls + 1
    /\ UNCHANGED <<now, detVars, meterVars, scoreVars, unsupported, resp, lastTrigger, lastCheck, lastResult,
                   nOps>>

RECURSIVE CountAnomalies(_)
CountAnomalies(metrics) ==
    IF metrics = <<>> THEN 0
    ELSE Len(Head(metrics).anomalies) + CountAnomalies(Tail(metrics))

\* what a weather lookup can meet: real data, a city without coordinates, no
\* API key, or a failed request (an HTTP error status or a rejected fetch)
LookupOutcomes == {"ok", "no coordinates", "no api key", "fetch failed"}

\* fetchRealWeather(city) meeting this outcome: every failure is answered with
\* generateMockWeatherFallback, so it never throws
fetchRealWeather(outcome) ==
    [threw |-> FALSE, weather |-> IF outcome = "ok" THEN "real" ELSE "mock"]

\* the try/catch of getDashboardData around the lookup: the weather of the
\* lookup, or generateMockWeather(city) when it threw
dashboardWeather(lookup) == IF lookup.threw THEN "mock" ELSE lookup.weather

\* A plausible slip: a lookup without real data ends the call with an error:
\* no transformer is updated and no response is returned.
ResumeGetDashboardDataAborts(c, outcome, loadSamples, randomSamples, noiseSamples) ==
    /\ c \in calls
    /\ IF outcome = "ok"
       THEN \E d \in Draws(loadSamples, randomSamples, noiseSamples) :
               \E r \in {transformersPass(TransformerOrder,
                                          [transformers |-> tstate, households |-> hstate,
                                           meters |-> meters, metrics |-> <<>>],
                                          c.timestamp, now, d)} :
                   /\ tstate' = r.transformers
                   /\ hstate' = r.households
                   /\ meters' = r.meters
                   /\ resp' = [updatedAt |-> c.timestamp,
                               transformers |-> r.metrics,
                               anomalyCount24h |-> CountAnomalies(r.metrics),
                               weather |-> "real"]
       ELSE /\ resp' = NoResponse
            /\ UNCHANGED <<tstate, hstate, meters>>
    /\ calls' = calls \ {c}
    /\ UNCHANGED <<now, detVars, meterVars, scoreVars, unsupported, cityCreated, lastTrigger, lastCheck,
                   lastResult, nCalls, nOps>>

\* getDashboardData after its await, for the waiting call c: the weather lookup
\* has met `outcome` (without real data, mock weather is used), every
\* transformer is updated with the call's timestamp, and the response is
\* assembled
ResumeGetDashboardData(c, outcome, loadSamples, randomSamples, noiseSamples) ==
    /\ c \in calls
    /\ \E d \in Draws(loadSamples, randomSamples, noiseSamples) :
          \E r \in {transformersPass(TransformerOrder,
                                     [transformers |-> tstate, households |-> hstate,
                                      meters |-> meters, metrics |-> <<>>],
                                     c.timestamp, now, d)} :
              /\ tstate' = r.transformers
              /\ hstate' = r.households
              /\ meters' = r.meters
              /\ resp' = [updatedAt |-> c.timestamp,
                          transformers |-> r.metrics,
                          anomalyCount24h |-> CountAnomalies(r.metrics),
                          weather |-> dashboardWeather(fetchRealWeather(outcome))]
    /\ calls' = calls \ {c}
    /\ UNCHANGED <<now, detVars, meterVars, scoreVars, unsupported, cityCreated, lastTrigger, lastCheck,
                   lastResult, nCalls, nOps>>

\* A plausible slip: the record is put on every transformer of the city.
TriggerArtificialOutageEverywhere(id, durationMinutes) ==
    /\ nOps < MaxOps
    /\ nOps' = nOps + 1
    /\ IF ~cityCreated \/ id \notin DOMAIN tstate
       THEN /\ lastResult' = Some(FALSE)
            /\ UNCHANGED <<tstate, lastTrigger, lastCheck>>
       ELSE /\ tstate' = [b \in DOMAIN tstate |->
                             [tstate[b] EXCEPT !.artificialOutage =
                                 Some([startTime |-> now,
                                       duration |-> durationOf(durationMinutes)])]]
            /\ lastResult' = Some(TRUE)
            /\ lastTrigger' = [lastTrigger EXCEPT ![id] =
                                  Some([at |-> now, durationMinutes |-> durationMinutes])]
            /\ lastCheck' = None
    /\ UNCHANGED <<now, detVars, meterVars, scoreVars, unsupported, cityCreated, hstate, meters, calls, resp,
                   nCalls>>

\* triggerArtificialOutage(city, transformerId, durationMinutes)
TriggerArtificialOutage(id, durationMinutes) ==
    /\ nOps < MaxOps
    /\ nOps' = nOps + 1
    /\ IF ~cityCreated \/ id \notin DOMAIN tstate
       THEN /\ lastResult' = Some(FALSE)
            /\ UNCHANGED <<tstate, lastTrigger, lastCheck>>
       ELSE /\ tstate' = [tstate EXCEPT ![id].artificialOutage =
                             Some([startTime |-> now,
                                   duration |-> durationOf(durationMinutes)])]
            /\ lastResult' = Some(TRUE)
            /\ lastTrigger' = [lastTrigger EXCEPT ![id] =
                                  Some([at |-> now, durationMinutes |-> durationMinutes])]
            /\ lastCheck' = None
    /\ UNCHANGED <<now, detVars, meterVars, scoreVars, unsupported, cityCreated, hstate, meters, calls, resp,
                   nCalls>>

\* clearArtificialOutage(city, transformerId)
ClearArtificialOutage(id) ==
    /\ nOps < MaxOps
    /\ nOps' = nOps + 1
    /\ IF ~cityCreated \/ id \notin DOMAIN tstate
       THEN /\ lastResult' = Some(FALSE)
            /\ UNCHANGED <<tstate, lastTrigger, lastCheck>>
       ELSE /\ tstate' = [tstate EXCEPT ![id].artificialOutage = None]
            /\ lastResult' = Some(TRUE)
            /\ lastTrigger' = [lastTrigger EXCEPT ![id] = None]
            /\ lastCheck' = None
    /\ UNCHANGED <<now, detVars, meterVars, scoreVars, unsupported, cityCreated, hstate, meters, calls, resp,
                   nCalls>>

\* isTransformerInArtificialOutage(transformerState) called on the state of
\* transformer id; lastCheck records the answer and the record before and after
CheckArtificialOutage(id) ==
    /\ nOps < MaxOps
    /\ nOps' = nOps + 1
    /\ cityCreated
    /\ LET r == isTransformerInArtificialOutage(tstate[id].artificialOutage, now)
       IN  /\ tstate' = [tstate EXCEPT ![id].artificialOutage = r.artificialOutage]
           /\ lastCheck' = Some([id |-> id, at |-> now, result |-> r.active,
                                 before |-> tstate[id].artificialOutage,
                                 after |-> r.artificialOutage])
    /\ UNCHANGED <<now, detVars, meterVars, scoreVars, unsupported, cityCreated, hstate, meters, calls, resp,
                   lastTrigger, lastResult, nCalls>>

\* A plausible slip: the lookup of a transformer id skips the substations.
DisasterTargetsBelowSubstation(target) ==
    IF target = "all" THEN TransformerIds
    ELSE IF target \in DOMAIN tstate
            /\ CsvRow(target).EntityType # "SubstationTransformer"
         THEN {target} ELSE {}

\* a lookup that falls back to every transformer when the id is unknown
DisasterTargetsOrAll(target) ==
    IF target \in DOMAIN tstate THEN {target} ELSE TransformerIds

\* findTransformerState / all transformers: the targets of a disaster operation
DisasterTargets(target) ==
    IF target = "all" THEN TransformerIds
    ELSE IF target \in DOMAIN tstate THEN {target} ELSE {}

\* triggerArtificialDisaster(city, kind, {transformerId, durationMinutes,
\* parameters}); target "all" stands for an absent transformerId
TriggerArtificialDisaster(kind, target, durationMinutes, parameters) ==
    /\ nOps < MaxOps
    /\ nOps' = nOps + 1
    /\ IF ~cityCreated \/ DisasterTargets(target) = {}
       THEN /\ lastResult' = Some(FALSE)
            /\ UNCHANGED tstate
       ELSE /\ tstate' = [id \in DOMAIN tstate |->
                            IF id \in DisasterTargets(target)
                            THEN [tstate[id] EXCEPT !.artificialDisaster =
                                     Some([kind |-> kind, startTime |-> now,
                                           duration |-> durationOf(durationMinutes),
                                           parameters |-> parameters])]
                            ELSE tstate[id]]
            /\ lastResult' = Some(TRUE)
    /\ UNCHANGED <<now, detVars, meterVars, scoreVars, unsupported, cityCreated, hstate, meters, calls, resp,
                   lastTrigger, lastCheck, nCalls>>

\* clearArtificialDisaster(city, transformerId)
ClearArtificialDisaster(target) ==
    /\ nOps < MaxOps
    /\ nOps' = nOps + 1
    /\ IF ~cityCreated \/ DisasterTargets(target) = {}
       THEN /\ lastResult' = Some(FALSE)
            /\ UNCHANGED tstate
       ELSE /\ tstate' = [id \in DOMAIN tstate |->
                            IF id \in DisasterTargets(target)
                            THEN [tstate[id] EXCEPT !.artificialDisaster = None]
                            ELSE tstate[id]]
            /\ lastResult' = Some(TRUE)
    /\ UNCHANGED <<now, detVars, meterVars, scoreVars, unsupported, cityCreated, hstate, meters, calls, resp,
                   lastTrigger, lastCheck, nCalls>>

\* the wall clock advances by dt seconds, up to the horizon explored
AdvanceClock(dt, horizon) ==
    /\ now + dt <= horizon
    /\ now' = now + dt
    /\ UNCHANGED <<detVars, meterVars, scoreVars, unsupported, cityCreated, tstate, hstate, meters, calls, resp,
                   lastTrigger, lastCheck, lastResult, nCalls, nOps>>

----------------------------------------------------------------------------
(* The Barangay Grid Health Index (bghi.ts) and the city summary            *)
(* (aggregateSummary).  Components, scores and weights are in hundredths, so *)
(* the weighted deterioration and the score before rounding are in           *)
(* ten-thousandths; load percentages are in tenths.  A number that is        *)
(* rounded is carried as a fraction [num, den] of the unit it is rounded to. *)

DEFAULT_WEIGHTS ==
    [loadStress |-> 35, outageScore |-> 25, powerQuality |-> 15,
     anomalyFrequency |-> 10, environmentalStress |-> 10, mismatchScore |-> 5]

\* A plausible slip: the lower limit is not applied.
clampNoFloor(value, minVal, maxVal) == Min(maxVal, value)

\* clamp(value, minVal, maxVal) = Math.max(minVal, Math.min(maxVal, value))
clamp(value, minVal, maxVal) == Max(minVal, Min(maxVal, value))

\* computeLoadStress(transformerLoadPct) with the default thresholds 70 and
\* 100: the load in tenths of a percent, the stress in hundredths (exact for
\* loads that are a multiple of 0.3 % away from 70 %)
computeLoadStress(transformerLoadPct) ==
    IF transformerLoadPct <= 700 THEN 0
    ELSE clamp(((transformerLoadPct - 700) * 1000) \div 30, 0, 10000)

\* the weighted sum of the six components, in ten-thousandths
deterioration(components, weights) ==
    weights.loadStress * components.loadStress
    + weights.outageScore * components.outageScore
    + weights.powerQuality * components.powerQuality
    + weights.anomalyFrequency * components.anomalyFrequency
    + weights.environmentalStress * components.environmentalStress
    + weights.mismatchScore * components.mismatchScore

\* the status chosen from bghiScore, the clamped score before it is rounded
\* (ten-thousandths)
statusOf(bghiScore) ==
    IF bghiScore < 600000 THEN "Critical"
    ELSE IF bghiScore < 800000 THEN "Warning"
    ELSE "Good"

colorOf(status) ==
    CASE status = "Critical" -> "red" [] status = "Warning" -> "amber" [] OTHER -> "green"

\* calculateBGHI(components, weights): bghiScore and deterioration are returned
\* rounded to hundredths
calculateBGHI(components, weights) ==
    TheOne({[bghiScore |-> toFixed([num |-> bghiScore, den |-> 100]),
             deterioration |-> toFixed([num |-> deterioration(components, weights),
                                        den |-> 100]),
             status |-> statusOf(bghiScore),
             color |-> colorOf(statusOf(bghiScore)),
             components |-> components] :
            bghiScore \in {clamp(1000000 - deterioration(components, weights),
                                 0, 1000000)}})

\* A plausible slip: every transformer weighs the same whatever its status.
urgencyMultiplierFlat(status) == 2

\* urgencyMultiplier, doubled: 3.0 for Critical, 1.5 for Warning, 1.0 otherwise
urgencyMultiplier(status) ==
    IF status = "Critical" THEN 6 ELSE IF status = "Warning" THEN 3 ELSE 2

\* metric.transformer.NumDownstreamBuildings || 1
householdWeight(metric) ==
    IF metric.NumDownstreamBuildings # 0 THEN metric.NumDownstreamBuildings ELSE 1

\* the loop over the metrics: weightedSum (hundredths) and totalWeight, both
\* doubled
RECURSIVE weightedTotals(_, _)
weightedTotals(metrics, acc) ==
    IF metrics = <<>> THEN acc
    ELSE weightedTotals(
            Tail(metrics),
            [weightedSum |-> acc.weightedSum
                             + Head(metrics).bghi.bghiScore * householdWeight(Head(metrics))
                               * urgencyMultiplier(Head(metrics).bghi.status),
             totalWeight |-> acc.totalWeight
                             + householdWeight(Head(metrics))
                               * urgencyMultiplier(Head(metrics).bghi.status)])

\* metric.loadPercentage >= 65 && metric.loadPercentage < 95
isWarningLoad(loadPercentage) == loadPercentage >= 650 /\ loadPercentage < 950

\* metric.loadPercentage >= 95
isCriticalLoad(loadPercentage) == loadPercentage >= 950

\* warningTransformers >= metrics.length * 0.3
escalates(warningTransformers, total) == 10 * warningTransformers >= 3 * total

\* the status of the city from the weighted score w = num/den (hundredths) and
\* the number of transformers at warning load
barangayStatus(w, warningTransformers, total) ==
    IF escalates(warningTransformers, total) THEN "Warning"
    ELSE IF w.num >= 8000 * w.den THEN "Good"
    ELSE IF w.num >= 6000 * w.den THEN "Warning"
    ELSE "Critical"

RECURSIVE loadSum(_)
loadSum(metrics) ==
    IF metrics = <<>> THEN 0 ELSE Head(metrics).loadPercentage + loadSum(Tail(metrics))

\* aggregateSummary(city, metrics, alerts, anomalies)
aggregateSummary(metrics, alerts, anomalies) ==
    IF metrics = <<>>
    THEN [bghiScore |-> 10000, status |-> "Good", color |-> "green",
          totalTransformers |-> 0, warningTransformers |-> 0,
          criticalTransformers |-> 0, anomalyCount24h |-> 0, alertsCount |-> 0,
          averageLoadPct |-> 0]
    ELSE TheOne({TheOne({
            [bghiScore |-> toFixed([num |-> Max(0, w.num), den |-> w.den]),
             status |-> barangayStatus(w, warning, Len(metrics)),
             color |-> colorOf(barangayStatus(w, warning, Len(metrics))),
             totalTransformers |-> Len(metrics),
             warningTransformers |-> warning,
             criticalTransformers |->
                 Cardinality({i \in DOMAIN metrics :
                                 isCriticalLoad(metrics[i].loadPercentage)}),
             anomalyCount24h |-> Len(anomalies),
             alertsCount |-> Len(alerts),
             averageLoadPct |-> toFixed([num |-> loadSum(metrics),
                                         den |-> Len(metrics)])] :
            w \in {IF t.totalWeight > 0
                   THEN [num |-> t.weightedSum, den |-> t.totalWeight]
                   ELSE [num |-> 10000, den |-> 1]},
            warning \in {Cardinality({i \in DOMAIN metrics :
                                         isWarningLoad(metrics[i].loadPercentage)})}}) :
         t \in {weightedTotals(metrics, [weightedSum |-> 0, totalWeight |-> 0])}})

----------------------------------------------------------------------------
(* The EWMA forecaster (forecasting.ts).  Loads and capacities are in        *)
(* thousandths of a kW here; the fields of a forecast point are in the unit  *)
(* they are rounded to: hundredths of a kW for loads and confidence bounds,  *)
(* thousandths for riskRatio and confidence, tenths for forecastAccuracy.    *)
(* alpha is the 0.5 the store constructs its forecasters with, so twice the  *)
(* adjustment, recentMeanKw - baselineCurrent, is what is carried.           *)

\* the hours of the loop `for (let offset = 0; offset < 24; offset++)`
HoursPerDay == 24
Hours == 0 .. (HoursPerDay - 1)

\* private hourlyBaseline: Record<number, number> = {}
EmptyBaseline == <<>>

\* Math.exp(-offset / 12) for offset 0..23, in thousandths
DecayFactor ==
    <<1000, 920, 846, 779, 717, 659, 607, 558, 513, 472, 435, 400,
      368, 338, 311, 287, 264, 243, 223, 205, 189, 174, 160, 147>>

\* Math.cos(k * 2 * Math.PI / 24) for k = 0..23, in thousandths
CosTable ==
    <<1000, 966, 866, 707, 500, 259, 0, -259, -500, -707, -866, -966,
      -1000, -966, -866, -707, -500, -259, 0, 259, 500, 707, 866, 966>>

\* setBaseline(hourlyAverages): the new hourlyBaseline
setBaseline(hourlyAverages) == hourlyAverages

\* generateBaselineFromPattern({peakHour, peakLoad, baseLoad}): the new
\* hourlyBaseline, baseLoad + variation * (1 + cos(phase)) for every hour
generateBaselineFromPattern(peakHour, peakLoad, baseLoad) ==
    [hour \in Hours |->
        baseLoad + toFixed([num |-> (peakLoad - baseLoad)
                                       * (1000 + CosTable[((hour - peakHour) % HoursPerDay) + 1]),
                            den |-> 2000])]

\* classifyRisk(riskRatio) for riskRatio = load / capacity (0 when capacity is 0)
classifyRisk(load, capacity) ==
    IF capacity <= 0 THEN "LOW"
    ELSE IF load * 100 >= 95 * capacity THEN "CRITICAL"
    ELSE IF load * 100 >= 85 * capacity THEN "HIGH"
    ELSE IF load * 100 >= 75 * capacity THEN "MODERATE"
    ELSE "LOW"

\* the ForecastPoint forecast24h pushes for one offset, at wall-clock time t;
\* 1.96 * uncertaintyFactor = 49 * (5 + offset) / 2500
forecastPoint(baseline, currentHour, adjustment2, capacityKw, offset, t) ==
    LET futureHour == (currentHour + offset) % HoursPerDay
        baselineLoad == baseline[futureHour]
        decayed == toFixed([num |-> adjustment2 * DecayFactor[offset + 1], den |-> 2000])
        adjustedLoad == Max(0, baselineLoad + decayed)
        margin == 49 * (5 + offset)
    IN  [hour |-> futureHour,
         offsetHours |-> offset,
         timestamp |-> t + offset * 3600,
         predictedLoadKw |-> toFixed([num |-> adjustedLoad, den |-> 10]),
         baselineLoadKw |-> toFixed([num |-> baselineLoad, den |-> 10]),
         adjustmentKw |-> toFixed([num |-> adjustment2 * DecayFactor[offset + 1],
                                   den |-> 20000]),
         riskRatio |-> IF capacityKw > 0
                       THEN toFixed([num |-> adjustedLoad * 1000, den |-> capacityKw])
                       ELSE 0,
         riskLevel |-> classifyRisk(adjustedLoad, capacityKw),
         confidenceLower |-> toFixed([num |-> Max(0, adjustedLoad * (2500 - margin)),
                                      den |-> 25000]),
         confidenceUpper |-> toFixed([num |-> adjustedLoad * (2500 + margin),
                                      den |-> 25000]),
         forecastAccuracy |-> Max(850, 950 - 3 * offset)]

\* A plausible slip: with no baseline the forecast is an empty list.
forecast24hSilent(baseline, currentHour, recentMeanKw, transformerCapacityKw, t) ==
    IF DOMAIN baseline = {}
    THEN [threw |-> FALSE, points |-> <<>>]
    ELSE [threw |-> FALSE,
          points |-> [i \in 1 .. HoursPerDay |->
                         forecastPoint(baseline, currentHour,
                                       recentMeanKw - baseline[currentHour],
                                       transformerCapacityKw, i - 1, t)]]

\* forecast24h(currentHour, recentMeanKw, transformerCapacityKw) on a
\* forecaster with this hourlyBaseline, at wall-clock time t: whether it threw,
\* and the predictions it returned
forecast24h(baseline, currentHour, recentMeanKw, transformerCapacityKw, t) ==
    IF DOMAIN baseline = {}
    THEN [threw |-> TRUE, points |-> <<>>]
    ELSE [threw |-> FALSE,
          points |-> [i \in 1 .. HoursPerDay |->
                         forecastPoint(baseline, currentHour,
                                       recentMeanKw - baseline[currentHour],
                                       transformerCapacityKw, i - 1, t)]]

\* criticalHours.reduce((min, point) => point.offsetHours < min.offsetHours ? point : min)
RECURSIVE firstCriticalOf(_, _)
firstCriticalOf(points, min) ==
    IF points = <<>> THEN min
    ELSE firstCriticalOf(Tail(points),
                         IF Head(points).offsetHours < min.offsetHours
                         THEN Head(points) ELSE min)

\* generateRecommendation(point): the branch taken and the numbers the text
\* prints (hoursAhead, and the riskRatio it prints as a percentage)
generateRecommendation(point) ==
    LET kind ==
            IF point.riskRatio >= 980
            THEN (IF point.offsetHours <= 2 THEN "URGENT" ELSE "CRITICAL")
            ELSE IF point.riskRatio >= 920
            THEN (IF point.offsetHours <= 3 THEN "WARNING" ELSE "Monitor closely")
            ELSE IF point.offsetHours <= 4 THEN "ADVISORY"
            ELSE "Plan ahead"
    IN  [kind |-> kind, hoursAhead |-> point.offsetHours, riskRatio |-> point.riskRatio]

\* the OverloadAlert built from the first critical point
overloadAlert(firstCritical, criticalThreshold, count) ==
    [alertType |-> "PREDICTIVE_OVERLOAD",
     firstCriticalHour |-> firstCritical.hour,
     hoursAhead |-> firstCritical.offsetHours,
     predictedLoadKw |-> firstCritical.predictedLoadKw,
     riskRatio |-> firstCritical.riskRatio,
     confidence |-> Min(950, 600 + 5 * (firstCritical.riskRatio - criticalThreshold)),
     criticalHoursCount |-> count,
     recommendedAction |-> generateRecommendation(firstCritical)]

\* A plausible slip: the lead time is not required of a critical hour.
assessOverloadRiskAnyLead(predictions, criticalThreshold, minLeadTimeHours) ==
    LET criticalHours ==
            SelectSeq(predictions, LAMBDA point : point.riskRatio >= criticalThreshold)
    IN  IF Len(criticalHours) = 0 THEN None
        ELSE Some(overloadAlert(firstCriticalOf(Tail(criticalHours), Head(criticalHours)),
                                criticalThreshold, Len(criticalHours)))

\* assessOverloadRisk(predictions, criticalThreshold, minLeadTimeHours): null
\* (None) or the alert
assessOverloadRisk(predictions, criticalThreshold, minLeadTimeHours) ==
    LET criticalHours ==
            SelectSeq(predictions,
                      LAMBDA point : /\ point.riskRatio >= criticalThreshold
                                     /\ point.offsetHours >= minLeadTimeHours)
    IN  IF Len(criticalHours) = 0 THEN None
        ELSE Some(overloadAlert(firstCriticalOf(Tail(criticalHours), Head(criticalHours)),
                                criticalThreshold, Len(criticalHours)))

----------------------------------------------------------------------------
(* Specifications of the detectors driven on their own.  Each starts from a   *)
(* freshly constructed object and applies its methods to inputs drawn from    *)
(* small sets.                                                                *)

\* values passed to RollingWindowStats.add and SpikeDetector.detect (0.1 kW)
SpikeValues == {50, 400}
\* values passed to OutageDetector.detect: 0 kW and 5 kW
OutageValues == {0, 50}
\* timestamps a caller may pass to add(): the caller chooses them freely
AddTimestamps == {0, 1}
\* steps of the wall clock between detect() calls
DetSteps == {30, 60}

ScoreInit ==
    /\ bghiCall = None
    /\ summaryCall = None
    /\ sheddingCall = None
    /\ hourlyBaseline = EmptyBaseline
    /\ forecastCall = None
    /\ alertCall = None

MeterInit ==
    /\ loadCache = EmptyCache
    /\ meterLog = <<>>
    /\ sampleCall = None

DetInit ==
    /\ window = EmptyWindow
    /\ added = <<>>
    /\ spikeCounter = 0
    /\ outageStart = None
    /\ overdrawStart = None
    /\ mismatchStart = None
    /\ detLog = <<>>

(* RollingWindowStats on its own *)

AddSample(value, timestamp) ==
    /\ Len(added) < MaxAdds
    /\ window' = WindowAdd(window, value, timestamp)
    /\ added' = Append(added, <<value, timestamp>>)
    /\ UNCHANGED <<now, spikeCounter, outageStart, overdrawStart, mismatchStart, detLog,
                   meterVars, scoreVars, cityVars>>

WindowInit == now = 0 /\ DetInit /\ MeterInit /\ ScoreInit /\ CityInit
WindowNext == \E v \in SpikeValues, t \in AddTimestamps : AddSample(v, t)
SpecWindow == WindowInit /\ [][WindowNext]_vars

(* SpikeDetector with the rolling window it reads *)

SpikeWindowAdd(value) ==
    /\ window' = WindowAdd(window, value, now)
    /\ UNCHANGED <<now, added, spikeCounter, outageStart, overdrawStart, mismatchStart,
                   detLog, meterVars, scoreVars, cityVars>>

SpikeDetectCall(value) ==
    /\ Len(detLog) < MaxCalls
    /\ LET r == SpikeDetect(spikeCounter, value, window)
       IN  /\ spikeCounter' = r.counter
           /\ detLog' = Append(detLog, [at |-> now, value |-> value,
                                        breach |-> SpikeBreach(value, window),
                                        fired |-> r.fired])
    /\ UNCHANGED <<now, window, added, outageStart, overdrawStart, mismatchStart,
                   meterVars, scoreVars, cityVars>>

SpikeInit == now = 0 /\ DetInit /\ MeterInit /\ ScoreInit /\ CityInit
SpikeNext ==
    \/ \E v \in SpikeValues : SpikeWindowAdd(v)
    \/ \E v \in SpikeValues : SpikeDetectCall(v)
SpecSpike == SpikeInit /\ [][SpikeNext]_vars

(* OutageDetector and the wall clock *)

OutageDetectCall(value) ==
    /\ Len(detLog) < MaxCalls
    /\ LET r == OutageDetect(outageStart, value, now)
       IN  /\ outageStart' = r.start
           /\ detLog' = Append(detLog, [at |-> now, value |-> value,
                                        breach |-> value < OutageThresholdKw,
                                        fired |-> r.fired])
    /\ UNCHANGED <<now, window, added, spikeCounter, overdrawStart, mismatchStart,
                   meterVars, scoreVars, cityVars>>

DetAdvance(dt) ==
    /\ now + dt <= MaxDetTime
    /\ now' = now + dt
    /\ UNCHANGED <<detVars, meterVars, scoreVars, cityVars>>

OutageDetInit == now = 0 /\ DetInit /\ MeterInit /\ ScoreInit /\ CityInit
OutageDetNext ==
    \/ \E v \in OutageValues : OutageDetectCall(v)
    \/ \E dt \in DetSteps : DetAdvance(dt)
SpecOutageDetector == OutageDetInit /\ [][OutageDetNext]_vars

(* One SmartMeter read by callers that pass their own timestamps *)

\* timestamps passed by the callers: two in the first minute, one in the next
ReadTimestamps == {5, 20, 65}
\* cacheIntervalSeconds: the orchestrator's 15 and the default 30
CacheIntervals == {15, 30}

ReadInstantaneous(timestamp, interval, load) ==
    /\ Len(meterLog) < MaxReads
    /\ LET r == generateInstantaneousLoad(loadCache, timestamp, interval, load)
       IN  /\ loadCache' = r.cache
           /\ meterLog' = Append(meterLog, [timestamp |-> r.timestamp,
                                            interval |-> interval,
                                            loadKw |-> r.loadKw])
    /\ UNCHANGED <<now, detVars, sampleCall, scoreVars, cityVars>>

MeterSpecInit == now = 0 /\ DetInit /\ MeterInit /\ ScoreInit /\ CityInit
MeterNext ==
    \E t \in ReadTimestamps, i \in CacheIntervals, l \in GeneratedLoads :
        ReadInstantaneous(t, i, l)
SpecMeter == MeterSpecInit /\ [][MeterNext]_vars

----------------------------------------------------------------------------
(* Specifications of the orchestrator *)

\* transformer ids passed to the control operations: the pole transformers
\* and one the city does not have
RequestIds == {"T1", "T2", "T9"}
\* durationMinutes passed to the triggers: absent (0) and one minute
DurationSamples == {0, 1}

OrchInit == now = 0 /\ DetInit /\ MeterInit /\ ScoreInit /\ CityInit

(* Artificial outages: trigger, clear, expiry checks and the clock.  The     *)
(* ticks run with one load and one random value; two clock steps reach an    *)
(* elapsed time of exactly the one-minute deadline or one second past it.    *)
OutageSteps == {30, 31}

OutageNext ==
    \/ BeginGetDashboardData(MaxTicks, 1, {MaxKw})
    \/ \E c \in calls : ResumeGetDashboardData(c, "ok", {MaxKw}, {90}, {90})
    \/ \E id \in RequestIds, dm \in DurationSamples : TriggerArtificialOutage(id, dm)
    \/ \E id \in RequestIds : ClearArtificialOutage(id)
    \/ \E id \in RequestIds \cap TransformerIds : CheckArtificialOutage(id)
    \/ \E dt \in OutageSteps : AdvanceClock(dt, MaxOutageTime)
SpecOutage == OrchInit /\ [][OutageNext]_vars

(* The dashboard: ticks one at a time, artificial outages and disasters on   *)
(* the transformer that has households, and the clock.  Outages have no      *)
(* duration here (SpecOutage explores expiry); every meter generates MaxKw   *)
(* and the weather lookup succeeds.                                          *)

\* the disasters triggered: every kind with its default parameters, and a
\* custom disaster that forces a total outage
DisasterSamples ==
    {[kind |-> k, parameters |-> NoParams] : k \in DisasterKinds}
    \cup {[kind |-> "custom", parameters |-> [forceOutage |-> 1]]}
\* the transformer ids passed to the operations: the pole transformer and one
\* the city does not have
TargetSamples == {"T1", "T9"}
\* the clock step: past one minute
ClockSteps == {61}
\* feeder noise: Math.random() = 0.9
NoiseSamples == {90}

Init == OrchInit

Next ==
    \/ BeginGetDashboardData(MaxTicks, 1, {MaxKw})
    \/ \E c \in calls :
          ResumeGetDashboardData(c, "ok", {MaxKw}, RandomSamples, NoiseSamples)
    \/ \E id \in TargetSamples : TriggerArtificialOutage(id, 0)
    \/ \E id \in TargetSamples : ClearArtificialOutage(id)
    \/ \E dis \in DisasterSamples, target \in TargetSamples :
          TriggerArtificialDisaster(dis.kind, target, 0, dis.parameters)
    \/ \E target \in TargetSamples : ClearArtificialDisaster(target)
    \/ \E dt \in ClockSteps : AdvanceClock(dt, MaxClock)

Spec == Init /\ [][Next]_vars

(* Concurrent getDashboardData calls for the same city: a call takes its     *)
(* timestamp, waits for the weather lookup, and runs its tick when the       *)
(* lookup returns; the lookups of different calls return in any order.       *)
ConcurrentSteps == {15}

ConcurrentNext ==
    \/ BeginGetDashboardData(MaxInFlight, MaxInFlight, {MaxKw})
    \/ \E c \in calls, w \in LookupOutcomes :
          ResumeGetDashboardData(c, w, GeneratedLoads, {90}, NoiseSamples)
    \/ \E dt \in ConcurrentSteps : AdvanceClock(dt, MaxClock)
SpecConcurrent == OrchInit /\ [][ConcurrentNext]_vars

(* The anomaly log over more than a day: an outage of the pole transformer   *)
(* is triggered and cleared, and the clock moves in steps of a day and a     *)
(* second.                                                                   *)
DaySteps == {86401}

AnomalyLogNext ==
    \/ BeginGetDashboardData(MaxLogTicks, 1, {MaxKw})
    \/ \E c \in calls : ResumeGetDashboardData(c, "ok", {MaxKw}, {90}, NoiseSamples)
    \/ \E dm \in DurationSamples : TriggerArtificialOutage("T1", dm)
    \/ ClearArtificialOutage("T1")
    \/ \E dt \in DaySteps : AdvanceClock(dt, MaxLogTime)
SpecAnomalyLog == OrchInit /\ [][AnomalyLogNext]_vars

(* The substation: ticks, outages and disasters recorded on the substation  *)
(* itself, and the clock stepping past the detectors' one-minute duration.   *)
SubstationIds == {id \in TransformerIds : CsvRow(id).EntityType = "SubstationTransformer"}

SubstationNext ==
    \/ BeginGetDashboardData(MaxSubTicks, 1, {MaxKw})
    \/ \E c \in calls :
          ResumeGetDashboardData(c, "ok", {MaxKw}, RandomSamples, NoiseSamples)
    \/ \E id \in SubstationIds : TriggerArtificialOutage(id, 0)
    \/ \E id \in SubstationIds : ClearArtificialOutage(id)
    \/ \E dis \in DisasterSamples, target \in SubstationIds :
          TriggerArtificialDisaster(dis.kind, target, 0, dis.parameters)
    \/ \E target \in SubstationIds : ClearArtificialDisaster(target)
    \/ \E dt \in ClockSteps : AdvanceClock(dt, MaxClock)
SpecSubstation == OrchInit /\ [][SubstationNext]_vars

(* Expiry of artificial outages and disasters: both are triggered on the   *)
(* pole transformer with no duration or one minute, re-triggered, and read   *)
(* by ticks up to, at and past the deadline.                                 *)

\* the clock steps: to the one-minute deadline of a record made at 0, and one
\* second past it
OverrideSteps == {60, 61}

\* the disasters triggered: two kinds whose default effect changes every load
OverrideDisasters ==
    {[kind |-> k, parameters |-> NoParams] : k \in {"heatwave", "brownout"}}

OverrideNext ==
    \/ BeginGetDashboardData(MaxOverrideTicks, 1, {MaxKw})
    \/ \E c \in calls :
          ResumeGetDashboardData(c, "ok", {MaxKw}, {90}, NoiseSamples)
    \/ \E dm \in DurationSamples : TriggerArtificialOutage("T1", dm)
    \/ \E dis \in OverrideDisasters, dm \in DurationSamples :
          TriggerArtificialDisaster(dis.kind, "T1", dm, dis.parameters)
    \/ \E dt \in OverrideSteps : AdvanceClock(dt, MaxOverrideTime)
SpecOverride == OrchInit /\ [][OverrideNext]_vars

(* SustainedOverdrawDetector and the wall clock *)

\* rolling means passed: below, at and above 1.2 times the baseline of 10 kW
OverdrawMeans == {100, 120, 130}
OverdrawBaselines == {100}
\* clock steps: half the minimum duration and the minimum duration
OverdrawSteps == {300, 600}

OverdrawDetectCall(rollingMean, baseline) ==
    /\ Len(detLog) < MaxCalls
    /\ LET r == OverdrawDetect(overdrawStart, [num |-> rollingMean, den |-> 1],
                               [num |-> baseline, den |-> 1], now)
       IN  /\ overdrawStart' = r.start
           /\ detLog' = Append(detLog, [at |-> now, value |-> rollingMean,
                                        breach |-> 10 * rollingMean > 12 * baseline,
                                        fired |-> r.fired])
    /\ UNCHANGED <<now, window, added, spikeCounter, outageStart, mismatchStart,
                   meterVars, scoreVars, cityVars>>

OverdrawNext ==
    \/ \E m \in OverdrawMeans, b \in OverdrawBaselines : OverdrawDetectCall(m, b)
    \/ \E dt \in OverdrawSteps : AdvanceClock(dt, MaxOverdrawTime)
SpecOverdraw == OrchInit /\ [][OverdrawNext]_vars

(* MismatchDetector and the wall clock *)

\* feeder powers passed, times 10^4 in 0.1 kW: 0.4 kW, just under 0.5 kW,
\* 0.5 kW and 1 kW
MismatchFeeders == {40000, 49999, 50000, 100000}
\* sums of node power passed, in 0.1 kW: none, and 1 kW
MismatchSums == {0, 10}
\* clock steps: half the minimum duration and the minimum duration
MismatchSteps == {900, 1800}

\* detect(feederPower, sumNodePower) now; the log entry's breach field tells
\* whether a breach had been pending for minDurationSeconds before the call
MismatchDetectCall(feeder1e4, sumNodePower) ==
    /\ Len(detLog) < MaxCalls
    /\ LET r == MismatchDetect(mismatchStart, feeder1e4, sumNodePower, now)
       IN  /\ mismatchStart' = r.start
           /\ detLog' = Append(detLog, [at |-> now, value |-> feeder1e4,
                                        breach |->
                                            /\ mismatchStart # None
                                            /\ now - mismatchStart[1]
                                                  >= MismatchMinDurationSeconds,
                                        fired |-> r.fired])
    /\ UNCHANGED <<now, window, added, spikeCounter, outageStart, overdrawStart,
                   meterVars, scoreVars, cityVars>>

MismatchNext ==
    \/ \E f \in MismatchFeeders, n \in MismatchSums : MismatchDetectCall(f, n)
    \/ \E dt \in MismatchSteps : AdvanceClock(dt, MaxMismatchTime)
SpecMismatch == OrchInit /\ [][MismatchNext]_vars

(* calculateBGHI on its own: one call per behaviour, on six components each  *)
(* drawn from values below 0, inside [0, 100] and above 100 (hundredths).    *)
ComponentSamples == {0 - 5000, 0, 10, 2001, 5715, 10000, 15000}

ComponentTuples == [DOMAIN DEFAULT_WEIGHTS -> ComponentSamples]

CalculateBGHI(components) ==
    /\ bghiCall = None
    /\ bghiCall' = Some([components |-> components,
                         result |-> calculateBGHI(components, DEFAULT_WEIGHTS)])
    /\ UNCHANGED <<now, detVars, meterVars, summaryCall, sheddingCall, forecastVars, cityVars>>

\* the inputs of the one call: none once it has been made
BghiInputs == IF bghiCall = None THEN ComponentTuples ELSE {}

BghiNext == \E components \in BghiInputs : CalculateBGHI(components)
SpecBghi == OrchInit /\ [][BghiNext]_vars

(* aggregateSummary on its own: one call per behaviour, on a list of         *)
(* transformer metrics made of up to MaxCopies copies of each of four        *)
(* transformers.                                                             *)

\* the part of a transformer's metrics that aggregateSummary reads, as
\* updateTransformerState builds it: loadStress comes from the load percentage
transformerMetric(loadPercentage, outageScore, buildings) ==
    [NumDownstreamBuildings |-> buildings,
     loadPercentage |-> loadPercentage,
     bghi |-> calculateBGHI([loadStress |-> computeLoadStress(loadPercentage),
                             outageScore |-> outageScore,
                             powerQuality |-> 0, anomalyFrequency |-> 0,
                             environmentalStress |-> 0, mismatchScore |-> 0],
                            DEFAULT_WEIGHTS)]

\* a healthy transformer (BGHI 100, 200 buildings); one at full load with 48
\* minutes of outage (BGHI 45, 500 buildings); one at 79 % load with no
\* building count (BGHI 89.5); one at 97 % load with one building (BGHI 68.5)
MetricSamples ==
    <<transformerMetric(0, 0, 200), transformerMetric(1000, 8000, 500),
      transformerMetric(790, 0, 0), transformerMetric(970, 0, 1)>>

Copies(x, n) == [i \in 1..n |-> x]

MetricsOfCounts(counts) ==
    Copies(MetricSamples[1], counts[1]) \o Copies(MetricSamples[2], counts[2])
    \o Copies(MetricSamples[3], counts[3]) \o Copies(MetricSamples[4], counts[4])

AggregateSummary(metrics) ==
    /\ summaryCall = None
    /\ summaryCall' = Some([metrics |-> metrics,
                            result |-> aggregateSummary(metrics, <<>>, <<>>)])
    /\ UNCHANGED <<now, detVars, meterVars, bghiCall, sheddingCall, forecastVars, cityVars>>

\* the inputs of the one call: none once it has been made
SummaryInputs ==
    IF summaryCall = None THEN [DOMAIN MetricSamples -> 0..MaxCopies] ELSE {}

SummaryNext ==
    \E counts \in SummaryInputs : AggregateSummary(MetricsOfCounts(counts))
SpecSummary == OrchInit /\ [][SummaryNext]_vars

(* An artificial outage that stays active while the dashboard is polled: an  *)
(* outage with no duration is triggered on the substation and on the pole    *)
(* transformer, and ticks run a minute apart.                                 *)

MaxAnomalyTicks == 2
MaxAnomalyTime == 60

\* the transformers the outage is triggered on
AnomalyIds == {"S1", "T1"}
\* the clock step: the detector's minimum duration
AnomalySteps == {OutageMinDurationSeconds}

OutageAnomalyNext ==
    \/ BeginGetDashboardData(MaxAnomalyTicks, 1, {MaxKw})
    \/ \E c \in calls :
          ResumeGetDashboardData(c, "ok", {MaxKw}, {90}, NoiseSamples)
    \/ \E id \in AnomalyIds : TriggerArtificialOutage(id, 0)
    \/ \E dt \in AnomalySteps : AdvanceClock(dt, MaxAnomalyTime)
SpecOutageAnomaly == OrchInit /\ [][OutageAnomalyNext]_vars

(* The forecaster driven on its own: a baseline is set or not, forecast24h   *)
(* is called once, and assessOverloadRisk is called on what it returned,     *)
(* with its default threshold and lead time.                                 *)

\* criticalThreshold = 0.9 and minLeadTimeHours = 2
DefaultCriticalThreshold == 900
DefaultMinLeadTimeHours == 2

\* the maps passed to setBaseline: the empty map, 100 kW at every hour, and
\* 100 kW at midnight with 10 kW at every other hour
BaselineSamples ==
    {EmptyBaseline,
     [hour \in Hours |-> 100000],
     [hour \in Hours |-> IF hour = 0 THEN 100000 ELSE 10000]}

\* the patterns generated: the defaults, and the one the store generates for a
\* capacity of 100 kW (baseLoad 40 % and peakLoad 85 % of it)
PatternSamples ==
    {[peakHour |-> 19, peakLoad |-> 150000, baseLoad |-> 80000],
     [peakHour |-> 19, peakLoad |-> 85000, baseLoad |-> 40000]}

\* recentMeanKw: 0, 100 and 200 kW; capacity: none and 100 kW
RecentMeanSamples == {0, 100000, 200000}
CapacitySamples == {0, 100000}

SetBaseline(hourlyAverages) ==
    /\ hourlyBaseline' = setBaseline(hourlyAverages)
    /\ UNCHANGED <<now, detVars, meterVars, bghiCall, summaryCall, sheddingCall, forecastCall, alertCall,
                   cityVars>>

GenerateBaselineFromPattern(pattern) ==
    /\ hourlyBaseline' = generateBaselineFromPattern(pattern.peakHour, pattern.peakLoad,
                                                     pattern.baseLoad)
    /\ UNCHANGED <<now, detVars, meterVars, bghiCall, summaryCall, sheddingCall, forecastCall, alertCall,
                   cityVars>>

Forecast24h(currentHour, recentMeanKw, transformerCapacityKw) ==
    /\ forecastCall' =
          Some([baseline |-> hourlyBaseline,
                currentHour |-> currentHour,
                recentMeanKw |-> recentMeanKw,
                capacityKw |-> transformerCapacityKw,
                outcome |-> forecast24h(hourlyBaseline, currentHour, recentMeanKw,
                                        transformerCapacityKw, now)])
    /\ UNCHANGED <<now, detVars, meterVars, bghiCall, summaryCall, sheddingCall, hourlyBaseline, alertCall,
                   cityVars>>

AssessOverloadRisk ==
    /\ forecastCall # None
    /\ ~forecastCall[1].outcome.threw
    /\ alertCall = None
    /\ alertCall' = Some([predictions |-> forecastCall[1].outcome.points,
                          result |-> assessOverloadRisk(forecastCall[1].outcome.points,
                                                        DefaultCriticalThreshold,
                                                        DefaultMinLeadTimeHours)])
    /\ UNCHANGED <<now, detVars, meterVars, bghiCall, summaryCall, sheddingCall, hourlyBaseline,
                   forecastCall, cityVars>>

\* the inputs of the calls: none once forecast24h has been called
BaselineInputs == IF forecastCall = None THEN BaselineSamples ELSE {}
PatternInputs == IF forecastCall = None THEN PatternSamples ELSE {}
ForecastInputs ==
    IF forecastCall = None
    THEN Hours \X RecentMeanSamples \X CapacitySamples
    ELSE {}

ForecastNext ==
    \/ \E b \in BaselineInputs : SetBaseline(b)
    \/ \E p \in PatternInputs : GenerateBaselineFromPattern(p)
    \/ \E in \in ForecastInputs : Forecast24h(in[1], in[2], in[3])
    \/ AssessOverloadRisk
SpecForecast == OrchInit /\ [][ForecastNext]_vars

(* The weather lookup of a tick: ticks run one at a time a refresh interval  *)
(* apart, each after a lookup that returns real data or meets one of the     *)
(* failures.                                                                  *)

MaxWeatherTicks == 3
MaxWeatherTime == 45

\* the clock step: the refresh interval
WeatherSteps == {REFRESH_INTERVAL_SECONDS}

WeatherNext ==
    \/ BeginGetDashboardData(MaxWeatherTicks, 1, {MaxKw})
    \/ \E c \in calls, outcome \in LookupOutcomes :
          ResumeGetDashboardData(c, outcome, {MaxKw}, {90}, NoiseSamples)
    \/ \E dt \in WeatherSteps : AdvanceClock(dt, MaxWeatherTime)
SpecWeather == OrchInit /\ [][WeatherNext]_vars

(* A city without topology next to a city that has one: getDashboardData     *)
(* and control operations are called for the unsupported city while the      *)
(* supported city is polled.                                                  *)

MaxFailedCalls == 2

\* the name of a city that is not a key of CITY_FILE_MAP
UnsupportedCities == {"Atlantis"}

UnsupportedNext ==
    \/ BeginGetDashboardData(MaxWeatherTicks, 1, {MaxKw})
    \/ \E c \in calls : ResumeGetDashboardData(c, "ok", {MaxKw}, {90}, NoiseSamples)
    \/ \E city \in UnsupportedCities : GetDashboardDataUnsupported(city, MaxFailedCalls)
    \/ \E city \in UnsupportedCities, operation \in ControlOperations :
          ControlOperationUnsupported(city, operation)
    \/ \E dt \in WeatherSteps : AdvanceClock(dt, MaxWeatherTime)
SpecUnsupported == OrchInit /\ [][UnsupportedNext]_vars

(* The weekend test of the load generator: one sample is generated at an     *)
(* hour of the week that begins on Thursday 1 January 1970.                  *)

\* the sample times: every full hour of the seven days
SampleTimes == {d * 86400 + h * 3600 : d \in 0 .. 6, h \in 0 .. 23}
\* baseKw + dailyProfile of the sample, in W, and the weekend factor drawn
ProfileSamples == {800, 2400}
FactorSamples == {600, 899}

GenerateSample(timestamp, profile, factor) ==
    /\ sampleCall' = Some([timestamp |-> timestamp,
                           profile |-> profile,
                           dampened |-> weekendDampened(timestamp),
                           baseProfile |-> baseProfileOf(timestamp, profile, factor)])
    /\ UNCHANGED <<now, detVars, loadCache, meterLog, scoreVars, cityVars>>

\* the inputs of the one call: none once it has been made
SampleInputs ==
    IF sampleCall = None THEN SampleTimes \X ProfileSamples \X FactorSamples ELSE {}

SampleNext == \E in \in SampleInputs : GenerateSample(in[1], in[2], in[3])
SpecSample == OrchInit /\ [][SampleNext]_vars

(* A day of polling: the dashboard is polled once per refresh interval, the  *)
(* meters generate the minimum load during the first polls and either end of *)
(* their range afterwards, a custom disaster that multiplies every load by   *)
(* three is triggered once on the pole transformer, and the clock also steps *)
(* by a whole day.                                                           *)

\* polls explored, and the wall-clock horizon: a day and the polls' intervals
MaxDayTicks == 13
MaxDayTime == 86565
\* polls during which every meter generates its minimum load
QuietTicks == 9

\* the clock steps: the refresh interval, and 24 hours
DaySchedule == {REFRESH_INTERVAL_SECONDS, MAX_HISTORY}

\* the loads the meters generate in the poll begun last
DayLoads == IF nCalls <= QuietTicks THEN {MinKw} ELSE GeneratedLoads

\* the disaster triggered: custom, with loadMultiplier = 3
DayDisaster == [kind |-> "custom", parameters |-> [loadMultiplier |-> 300]]

\* whether the poll of the current refresh interval has returned
Polled == resp.updatedAt = now

DayNext ==
    \/ ~Polled /\ BeginGetDashboardData(MaxDayTicks, 1, {MinKw})
    \/ \E c \in calls, l \in DayLoads :
          ResumeGetDashboardData(c, "ok", {l}, {90}, NoiseSamples)
    \/ /\ nOps = 0
       /\ TriggerArtificialDisaster(DayDisaster.kind, "T1", 0, DayDisaster.parameters)
    \/ \E dt \in DaySchedule : Polled /\ AdvanceClock(dt, MaxDayTime)
SpecDay == OrchInit /\ [][DayNext]_vars

(* The feeder reading: ticks half an hour apart with the feeder noise at     *)
(* either end of its range, under disasters that carry a mismatch bias.      *)

MaxFeederTicks == 2
MaxFeederTime == 1800

\* Math.random() of the feeder reading, in percent: 0 and 0.99
FeederNoise == {0, 99}
\* the clock step: the mismatch detector's minimum duration
FeederSteps == {MismatchMinDurationSeconds}
\* the disasters triggered: a cyberattack with its default bias of 0.25, and a
\* custom disaster with a bias of 1
FeederDisasters ==
    {[kind |-> "cyberattack", parameters |-> NoParams],
     [kind |-> "custom", parameters |-> [mismatchBias |-> 1000]]}

FeederNext ==
    \/ BeginGetDashboardData(MaxFeederTicks, 1, {MaxKw})
    \/ \E c \in calls : ResumeGetDashboardData(c, "ok", {MaxKw}, {90}, FeederNoise)
    \/ \E dis \in FeederDisasters :
          TriggerArtificialDisaster(dis.kind, "T1", 0, dis.parameters)
    \/ \E dt \in FeederSteps : AdvanceClock(dt, MaxFeederTime)
SpecFeeder == OrchInit /\ [][FeederNext]_vars

(* Outages and disasters with and without a duration over more than a day:  *)
(* both are triggered on the pole transformer with durationMinutes -1, 0     *)
(* (absent) or 1, cleared, checked and read by ticks, while the clock steps  *)
(* past the minute and by a whole day.                                       *)

MaxIndefiniteTicks == 2
\* the horizons of the two clock steps
MaxMinuteTime == 61
MaxIndefiniteTime == 86461

\* durationMinutes passed to the triggers: a negative number (the outage
\* route passes on what it is given), absent or 0, and one minute
AnyDurationSamples == {0 - 1, 0, 1}
\* the clock steps: past one minute, and 24 hours
MinuteSteps == {61}
IndefiniteSteps == {MAX_HISTORY}
\* the disaster triggered
IndefiniteDisasters == {[kind |-> "brownout", parameters |-> NoParams]}

IndefiniteNext ==
    \/ BeginGetDashboardData(MaxIndefiniteTicks, 1, {MaxKw})
    \/ \E c \in calls : ResumeGetDashboardData(c, "ok", {MaxKw}, {90}, NoiseSamples)
    \/ \E dm \in AnyDurationSamples : TriggerArtificialOutage("T1", dm)
    \/ ClearArtificialOutage("T1")
    \/ CheckArtificialOutage("T1")
    \/ \E dis \in IndefiniteDisasters, dm \in AnyDurationSamples :
          TriggerArtificialDisaster(dis.kind, "T1", dm, dis.parameters)
    \/ ClearArtificialDisaster("T1")
    \/ \E dt \in MinuteSteps : AdvanceClock(dt, MaxMinuteTime)
    \/ \E dt \in IndefiniteSteps : AdvanceClock(dt, MaxIndefiniteTime)
SpecIndefinite == OrchInit /\ [][IndefiniteNext]_vars

(* The life of a city's state: control operations are called for every       *)
(* transformer of the topology before and after the first getDashboardData   *)
(* call, whose weather lookup succeeds or fails.                             *)

MaxCityTicks == 2

\* the weather lookup of a call: real data or a failed request
CityLookups == {"ok", "fetch failed"}
\* the disaster triggered
CityDisasters == {[kind |-> "heatwave", parameters |-> NoParams]}

CityNext ==
    \/ BeginGetDashboardData(MaxCityTicks, 1, {MaxKw})
    \/ \E c \in calls, w \in CityLookups :
          ResumeGetDashboardData(c, w, {MaxKw}, {90}, NoiseSamples)
    \/ \E id \in TransformerIds : TriggerArtificialOutage(id, 0)
    \/ \E id \in TransformerIds : ClearArtificialOutage(id)
    \/ \E dis \in CityDisasters, id \in TransformerIds :
          TriggerArtificialDisaster(dis.kind, id, 0, dis.parameters)
    \/ \E id \in TransformerIds : ClearArtificialDisaster(id)
SpecCity == OrchInit /\ [][CityNext]_vars

(* The first ticks of a city: the dashboard is polled once per meter bucket  *)
(* and in every tick the meters generate either the low or the high load,    *)
(* so that the rolling window of a transformer fills with every sequence of  *)
(* low and high loads.                                                       *)

MaxWarmupTicks == 10

\* the clock step: two refresh intervals, so that every tick falls into a new
\* bucket of the meters' cache and reads a newly generated load
WarmupSteps == {2 * REFRESH_INTERVAL_SECONDS}

WarmupNext ==
    \/ ~Polled /\ BeginGetDashboardData(MaxWarmupTicks, 1, GeneratedLoads)
    \/ \E c \in calls, l \in GeneratedLoads :
          ResumeGetDashboardData(c, "ok", {l}, {90}, NoiseSamples)
    \/ \E dt \in WarmupSteps :
          Polled /\ AdvanceClock(dt, MaxWarmupTicks * 2 * REFRESH_INTERVAL_SECONDS)
SpecWarmup == OrchInit /\ [][WarmupNext]_vars

(* generateLoadSheddingPlan on its own: one call per behaviour, on a list of  *)
(* transformer metrics, a target and constraints.  Loads and the target are  *)
(* in kW (the code divides both sides' kW by 1000), loadPercentage is in     *)
(* tenths of a percent.                                                      *)

\* the patterns that mark critical infrastructure
criticalPatterns ==
    {"hospital", "clinic", "medical", "health", "police", "precinct", "station",
     "fire", "emergency", "water", "treatment", "telecom", "cell", "tower",
     "government", "city hall", "municipal"}

\* the patterns that id.toLowerCase() includes, for the ids of the sample
\* transformers: a substation's id includes 'station'
includedPatterns(id) ==
    CASE id = "Hospital-T4" -> {"hospital"}
      [] id = "Substation-S1" -> {"station"}
      [] OTHER -> {}

\* isCriticalInfrastructure(transformer)
isCriticalInfrastructure(transformer) ==
    includedPatterns(transformer.ID) \cap criticalPatterns # {}

\* getRecentOutageMinutes(transformerId): the minutes of the entries of the
\* last 24 hours in the outage history, which is empty outside a browser
getRecentOutageMinutes(history, transformerId) ==
    IF transformerId \in DOMAIN history THEN history[transformerId] ELSE 0

\* the sum of NumDownstreamBuildings over a list of transformers
RECURSIVE SumBuildings(_)
SumBuildings(transformers) ==
    IF transformers = <<>> THEN 0
    ELSE Head(transformers).NumDownstreamBuildings + SumBuildings(Tail(transformers))

\* calculatePriorityScore(transformer, allTransformers, constraints).score
calculatePriorityScore(transformer, allTransformers, constraints, history) ==
    LET critical == isCriticalInfrastructure(transformer)
        buildings == transformer.NumDownstreamBuildings
        n == Len(allTransformers)
        total == SumBuildings(allTransformers)
        recent == getRecentOutageMinutes(history, transformer.ID)
        infrastructure == IF critical THEN 0 - 40 ELSE 20
        impact == IF ~constraints.minimizeAffectedHouseholds THEN 0
                  ELSE IF 2 * buildings * n < total THEN 30
                  ELSE IF buildings * n < total THEN 15
                  ELSE 0 - 15
        relief == IF transformer.loadPercentage >= 800 THEN 20
                  ELSE IF transformer.loadPercentage >= 650 THEN 10
                  ELSE 0 - 10
        equity == IF ~constraints.respectEquityThresholds THEN 0
                  ELSE IF recent > 60 THEN 0 - 20
                  ELSE IF recent > 30 THEN 0 - 10
                  ELSE 10
    IN  IF critical /\ constraints.protectCriticalInfrastructure THEN 0
        ELSE Max(0, Min(100, 50 + infrastructure + impact + relief + equity))

\* the candidate built for a transformer; estimatedRelief is in kW
sheddingCandidate(transformer, allTransformers, constraints, history) ==
    [transformerId |-> transformer.ID,
     currentLoadKw |-> transformer.currentLoadKw,
     loadPercentage |-> transformer.loadPercentage,
     downstreamBuildings |-> transformer.NumDownstreamBuildings,
     priorityScore |-> calculatePriorityScore(transformer, allTransformers,
                                              constraints, history),
     estimatedRelief |-> transformer.currentLoadKw,
     recentOutageMinutes |-> getRecentOutageMinutes(history, transformer.ID),
     isCriticalInfrastructure |-> isCriticalInfrastructure(transformer)]

\* one step of the stable sort by descending priorityScore: the candidate
\* goes behind every candidate whose score is not lower
RECURSIVE insertByPriority(_, _)
insertByPriority(sorted, candidate) ==
    IF sorted = <<>> THEN <<candidate>>
    ELSE IF Head(sorted).priorityScore >= candidate.priorityScore
         THEN <<Head(sorted)>> \o insertByPriority(Tail(sorted), candidate)
    ELSE <<candidate>> \o sorted

\* [...candidates].sort((a, b) => b.priorityScore - a.priorityScore)
RECURSIVE sortByPriority(_)
sortByPriority(candidates) ==
    IF candidates = <<>> THEN <<>>
    ELSE insertByPriority(sortByPriority(SubSeq(candidates, 1, Len(candidates) - 1)),
                          candidates[Len(candidates)])

\* A plausible slip: no candidate is skipped.
skippedNever(candidate) == FALSE

\* if (candidate.priorityScore === 0) continue
skipped(candidate) == candidate.priorityScore = 0

\* a selected candidate: the candidate with its sheddingOrder
withSheddingOrder(candidate, order) ==
    [transformerId |-> candidate.transformerId,
     currentLoadKw |-> candidate.currentLoadKw,
     loadPercentage |-> candidate.loadPercentage,
     downstreamBuildings |-> candidate.downstreamBuildings,
     priorityScore |-> candidate.priorityScore,
     estimatedRelief |-> candidate.estimatedRelief,
     recentOutageMinutes |-> candidate.recentOutageMinutes,
     isCriticalInfrastructure |-> candidate.isCriticalInfrastructure,
     sheddingOrder |-> order]

\* the selection loop over the sorted candidates
RECURSIVE selectTransformers(_, _, _, _)
selectTransformers(sortedCandidates, selected, accumulatedRelief, targetReduction) ==
    IF sortedCandidates = <<>> \/ accumulatedRelief >= targetReduction
    THEN [selected |-> selected, accumulatedRelief |-> accumulatedRelief]
    ELSE IF skipped(Head(sortedCandidates))
         THEN selectTransformers(Tail(sortedCandidates), selected, accumulatedRelief,
                                 targetReduction)
    ELSE selectTransformers(Tail(sortedCandidates),
                            Append(selected, withSheddingOrder(Head(sortedCandidates),
                                                               Len(selected) + 1)),
                            accumulatedRelief + Head(sortedCandidates).estimatedRelief,
                            targetReduction)

\* generateLoadSheddingPlan(transformers, targetReductionMW, constraints): the
\* target, the reduction reached and the recommended transformers
generateLoadSheddingPlan(transformers, targetReduction, constraints, history) ==
    LET candidates == [i \in DOMAIN transformers |->
                          sheddingCandidate(transformers[i], transformers,
                                            constraints, history)]
        r == selectTransformers(sortByPriority(candidates), <<>>, 0, targetReduction)
    IN  [targetReduction |-> targetReduction,
         actualReduction |-> r.accumulatedRelief,
         recommendedTransformers |-> r.selected,
         transformersToShed |-> Len(r.selected)]

\* the longest list of transformers passed to a call
MaxSheddingTransformers == 3

\* the transformers a call's list is made of: two equal pole transformers but
\* for the id, a large one recently shed, a middle one, a hospital's
\* transformer that carries the largest load, and a substation
SheddingTransformers ==
    {[ID |-> "T1", NumDownstreamBuildings |-> 1, currentLoadKw |-> 45,
      loadPercentage |-> 900],
     [ID |-> "T2", NumDownstreamBuildings |-> 1, currentLoadKw |-> 45,
      loadPercentage |-> 900],
     [ID |-> "T3", NumDownstreamBuildings |-> 4, currentLoadKw |-> 100,
      loadPercentage |-> 500],
     [ID |-> "T5", NumDownstreamBuildings |-> 2, currentLoadKw |-> 70,
      loadPercentage |-> 700],
     [ID |-> "Hospital-T4", NumDownstreamBuildings |-> 3, currentLoadKw |-> 400,
      loadPercentage |-> 950],
     [ID |-> "Substation-S1", NumDownstreamBuildings |-> 30, currentLoadKw |-> 0,
      loadPercentage |-> 0]}

\* the lists of distinct transformers passed to a call
SheddingLists ==
    {l \in UNION {[1..n -> SheddingTransformers] : n \in 1..MaxSheddingTransformers} :
        \A i, j \in DOMAIN l : i # j => l[i].ID # l[j].ID}

\* the targets, in kW: none, one two transformers reach, and one only the
\* hospital's transformer could help to reach
SheddingTargets == {0, 90, 300}

\* the constraints of a call
SheddingConstraints ==
    [protectCriticalInfrastructure : BOOLEAN, respectEquityThresholds : BOOLEAN,
     minimizeAffectedHouseholds : BOOLEAN]

\* the recent outage minutes per transformer read from the outage history:
\* none (as on the server), and a history with two transformers shed
SheddingHistories ==
    {<<>>, [id \in {"T3", "T5"} |-> IF id = "T3" THEN 90 ELSE 45]}

GenerateLoadSheddingPlan(transformers, targetReduction, constraints, history) ==
    /\ sheddingCall = None
    /\ sheddingCall' = Some([transformers |-> transformers,
                             constraints |-> constraints,
                             history |-> history,
                             plan |-> generateLoadSheddingPlan(transformers,
                                                               targetReduction,
                                                               constraints, history)])
    /\ UNCHANGED <<now, detVars, meterVars, bghiCall, summaryCall, forecastVars, cityVars>>

\* the inputs of the one call: none once it has been made
SheddingInputs ==
    IF sheddingCall = None
    THEN SheddingLists \X SheddingTargets \X SheddingConstraints \X SheddingHistories
    ELSE {}

SheddingNext ==
    \E in \in SheddingInputs : GenerateLoadSheddingPlan(in[1], in[2], in[3], in[4])
SpecShedding == OrchInit /\ [][SheddingNext]_vars

----------------------------------------------------------------------------
(* Claims about the detectors *)

\* The start of the run of consecutive below-threshold calls that call i of
\* the log belongs to (i itself when the call before it was not below).
RECURSIVE EpisodeStart(_, _)
EpisodeStart(log, i) ==
    IF i > 1 /\ log[i - 1].breach THEN EpisodeStart(log, i - 1) ELSE i

\* Call i is the first call of its run at which the time since the run
\* started has reached minDurationSeconds.
FirstCrossing(log, i) ==
    LET j == EpisodeStart(log, i)
    IN  /\ log[i].breach
        /\ log[i].at - log[j].at >= OutageMinDurationSeconds
        /\ \A k \in j..(i - 1) : log[k].at - log[j].at < OutageMinDurationSeconds

\* C3 (as claimed): OutageDetector fires exactly once per sustained episode: a
\* detect() call returns an anomaly if and only if it is the first call of its
\* run of below-threshold calls at which the time since the run started is at
\* least minDurationSeconds; no later call of the same run fires.
C3_FiresOncePerEpisode ==
    \A i \in 1..Len(detLog) : detLog[i].fired <=> FirstCrossing(detLog, i)

\* C4: OutageDetector returns an anomaly only on a call that ends a stretch of
\* calls, all below outageThresholdKw, spanning at least minDurationSeconds of
\* wall-clock time; the first below-threshold call after construction or
\* after a reading at or above the threshold never fires.
C4_FiresOnlyWhenSustained ==
    \A i \in 1..Len(detLog) :
        /\ detLog[i].fired =>
              \E j \in 1..i :
                  /\ \A k \in j..i : detLog[k].value < OutageThresholdKw
                  /\ detLog[i].at - detLog[j].at >= OutageMinDurationSeconds
        /\ (i = 1 \/ detLog[i - 1].value >= OutageThresholdKw) => ~detLog[i].fired

\* C4 witness: a detect() call fired after a recovery and a new sustained run.
C4_Witness ==
    \E i \in 1..Len(detLog), j \in 1..Len(detLog) :
        j < i /\ detLog[i].fired /\ ~detLog[j].breach

\* Number of consecutive breaching calls ending at call i, counted since the
\* last non-breaching call, the last firing, or construction.
RECURSIVE RunLen(_, _)
RunLen(log, i) ==
    IF i = 0 \/ ~log[i].breach THEN 0
    ELSE IF i > 1 /\ log[i - 1].fired THEN 1
    ELSE 1 + RunLen(log, i - 1)

\* C5: SpikeDetector returns an anomaly on a detect() call if and only if the
\* call is the persistenceSamples-th consecutive call, counted since
\* construction, the last non-breaching call or the last firing, whose value
\* exceeds max(absoluteMinKw, mean + zThreshold*std); the counter is 0 after
\* any non-breaching call and after each firing.
C5_SpikeFiresAtPersistence ==
    /\ \A i \in 1..Len(detLog) :
          detLog[i].fired <=> RunLen(detLog, i) = PersistenceSamples
    /\ Len(detLog) > 0 =>
          LET last == detLog[Len(detLog)]
          IN  spikeCounter = IF last.fired THEN 0 ELSE RunLen(detLog, Len(detLog))

\* C5 witness: a firing, then a further breach that did not fire, then a
\* second firing.
C5_Witness ==
    \E i \in 1..Len(detLog) :
        /\ i + 2 <= Len(detLog)
        /\ detLog[i].fired
        /\ detLog[i + 1].breach /\ ~detLog[i + 1].fired
        /\ detLog[i + 2].fired

\* The last n elements of a sequence.
LastN(s, n) == SubSeq(s, Len(s) - n + 1, Len(s))

\* C6: after k add() calls a window of capacity N holds min(k, N) samples,
\* never more than N, and they are the last min(k, N) (value, timestamp)
\* pairs added, in insertion order: each overflow evicts the pair added
\* earliest, value and timestamp together.
C6_WindowIsLastN ==
    LET k == Len(added)
        n == Min(k, WindowSize)
    IN  /\ Len(window.values) = n
        /\ Len(window.timestamps) = n
        /\ n <= WindowSize
        /\ \A i \in 1..n :
              <<window.values[i], window.timestamps[i]>> = LastN(added, n)[i]

\* C6 witness: the window has overflowed twice and the evicted pairs carried
\* later timestamps than pairs that stayed.
C6_Witness ==
    /\ Len(added) >= WindowSize + 2
    /\ added[1][2] > window.timestamps[1]
    /\ added[1][1] # window.values[1]

----------------------------------------------------------------------------
(* Claims about the smart meter *)

\* C7 (as claimed): for one meter, any two instantaneous readings taken with
\* the same bucket length whose timestamps truncate to the same bucket return
\* the identical loadKw, whatever readings of other buckets are made between
\* them and in whatever order the readers' calls arrive.
C7_SameBucketSameLoad ==
    \A i \in 1..Len(meterLog), j \in 1..Len(meterLog) :
        (/\ meterLog[i].interval = meterLog[j].interval
         /\ meterLog[i].timestamp = meterLog[j].timestamp)
        => meterLog[i].loadKw = meterLog[j].loadKw

----------------------------------------------------------------------------
(* Claims about the orchestrator *)

\* C1: after triggerArtificialOutage(T, d) with d > 0 succeeded, and until the
\* next trigger or clear, a check of T made while at most d minutes have
\* elapsed returns true and keeps the record; a check made after more than d
\* minutes returns false and leaves T without an outage record, whether it
\* found one (the first such check) or not (the later ones).
C1_OutageExpiry ==
    lastCheck # None =>
        LET c == lastCheck[1]
            tr == lastTrigger[c.id]
        IN  (tr # None /\ tr[1].durationMinutes > 0) =>
                IF c.at - tr[1].at <= tr[1].durationMinutes * 60
                THEN c.result /\ c.before # None /\ c.after = c.before
                ELSE ~c.result /\ c.after = None

\* A check made more than d minutes after the trigger found the record,
\* returned false and deleted it.
C1_Witness ==
    /\ lastCheck # None
    /\ lastTrigger[lastCheck[1].id] # None
    /\ lastTrigger[lastCheck[1].id][1].durationMinutes > 0
    /\ lastCheck[1].at - lastTrigger[lastCheck[1].id][1].at > 60
    /\ lastCheck[1].before # None
    /\ lastCheck[1].after = None
    /\ ~lastCheck[1].result

\* the metrics of the last response, as a set
LastMetrics == {resp.transformers[i] : i \in DOMAIN resp.transformers}

\* the households stored for transformer id, as a set
HouseholdsOf(id) == {tstate[id].householdIds[i] : i \in DOMAIN tstate[id].householdIds}

\* the sum of the latestLoadKw stored for the households ids (household state
\* changes only in a tick, and a tick replaces the last response)
RECURSIVE StoredSum(_)
StoredSum(ids) ==
    IF ids = <<>> THEN 0 ELSE hstate[Head(ids)].latestLoadKw + StoredSum(Tail(ids))

\* C2: after a tick in which a transformer's artificial outage was active,
\* every household of the transformer has latestLoadKw = 0 and the reported
\* transformer load is 0, whatever disaster is recorded on the transformer;
\* no disaster effect took part in the tick (it forced no outage).
C2_OutageZeroesLoads ==
    \A m \in LastMetrics :
        m.isInOutage =>
            /\ \A h \in HouseholdsOf(m.ID) : hstate[h].latestLoadKw = 0
            /\ m.totalLoad = 0
            /\ ~m.forcedDisasterOutage

\* A tick ran on a transformer with households while both an artificial
\* outage and an artificial disaster were active on it.
C2_Witness ==
    \E m \in LastMetrics :
        /\ m.isInOutage
        /\ m.artificialDisaster # "null"
        /\ HouseholdsOf(m.ID) # {}
        /\ \A h \in HouseholdsOf(m.ID) : hstate[h].latestLoadKw = 0

\* C10: after a tick, the load reported for a transformer is the sum of the
\* latestLoadKw stored for its households, or 0 when a disaster effect forced
\* a total outage in the tick; every household in the sum has this
\* transformer as its transformerId and is listed by no other transformer.
C10_LoadIsHouseholdSum ==
    \A m \in LastMetrics :
        /\ m.totalLoad = IF m.forcedDisasterOutage THEN 0
                         ELSE StoredSum(tstate[m.ID].householdIds)
        /\ \A h \in HouseholdsOf(m.ID) :
              /\ hstate[h].transformerId = m.ID
              /\ \A other \in DOMAIN tstate \ {m.ID} : h \notin HouseholdsOf(other)

\* A tick in which a disaster forced a total outage reported 0 while its
\* households kept a positive stored load.
C10_Witness ==
    \E m \in LastMetrics :
        /\ m.forcedDisasterOutage
        /\ m.totalLoad = 0
        /\ StoredSum(tstate[m.ID].householdIds) > 0

\* the timestamps of a list of samples are in non-decreasing order
InTimeOrder(items) ==
    \A i \in 1..(Len(items) - 1) : items[i].timestamp <= items[i + 1].timestamp

\* C8 (as claimed): with several getDashboardData calls of one city in flight,
\* every transformer's history, outageFlags and mismatchRatios and every
\* household's loadHistory stay in non-decreasing timestamp order: no tick
\* appends samples stamped earlier than samples another tick has appended.
C8_HistoriesInTimeOrder ==
    cityCreated =>
        /\ \A id \in DOMAIN tstate :
              /\ InTimeOrder(tstate[id].history)
              /\ InTimeOrder(tstate[id].outageFlags)
              /\ InTimeOrder(tstate[id].mismatchRatios)
        /\ \A h \in DOMAIN hstate : InTimeOrder(hstate[h].loadHistory)

\* a step in which a waiting getDashboardData call runs its tick and returns
TickStep == calls' # calls /\ calls' \subseteq calls

\* the anomalies of all transformers' logs, counted
RECURSIVE LogSizes(_, _)
LogSizes(ts, ids) ==
    IF ids = {} THEN 0
    ELSE LET id == CHOOSE x \in ids : TRUE
         IN  Len(ts[id].anomalies) + LogSizes(ts, ids \ {id})

\* C9 (as claimed): after every tick, whether or not it produced an anomaly,
\* no transformer's anomaly log holds an anomaly more than 24 hours old, so
\* summary.anomalyCount24h counts anomalies of the last 24 hours only.
C9_AnomalyLogWithin24h ==
    [][TickStep =>
          /\ \A id \in DOMAIN tstate' :
                \A i \in DOMAIN tstate'[id].anomalies :
                    tstate'[id].anomalies[i].timestamp >= now - MAX_HISTORY
          /\ resp'.anomalyCount24h =
                LogSizes([id \in DOMAIN tstate' |->
                             [anomalies |-> pruneOldAnomalies(tstate'[id].anomalies, now)]],
                         DOMAIN tstate')]_vars

\* C11: for a SubstationTransformer no tick logs an anomaly or a spike event
\* and no detector state is touched: its anomaly log and spikeEvents stay
\* empty and its detectors stay as constructed in every state, whatever
\* outages and disasters are recorded on it; and every tick appends one entry,
\* stamped with the tick's timestamp, to its mismatchRatios.
C11_SubstationNeverDetects ==
    /\ [](cityCreated =>
            \A id \in SubstationIds :
                /\ tstate[id].anomalies = <<>>
                /\ tstate[id].spikeEvents = <<>>
                /\ tstate[id].spikeCounter = 0
                /\ tstate[id].overdrawStart = None
                /\ tstate[id].outageStart = None
                /\ tstate[id].mismatchStart = None)
    /\ [][TickStep =>
            \A id \in SubstationIds :
                /\ Len(tstate'[id].mismatchRatios) = Len(tstate[id].mismatchRatios) + 1
                /\ tstate'[id].mismatchRatios[Len(tstate'[id].mismatchRatios)].timestamp
                      = resp'.updatedAt]_vars

\* Two ticks more than a minute apart ran on a substation reporting load 0
\* under an artificial outage: a pole transformer would have logged an OUTAGE.
C11_Witness ==
    \E id \in SubstationIds :
        /\ cityCreated
        /\ Len(tstate[id].mismatchRatios) >= 2
        /\ tstate[id].artificialOutage # None
        /\ tstate[id].history[Len(tstate[id].history)].timestamp
              - tstate[id].history[1].timestamp >= OutageMinDurationSeconds
        /\ \E m \in LastMetrics : m.ID = id /\ m.totalLoad = 0 /\ m.anomalies = <<>>

\* C12: SustainedOverdrawDetector keeps as its start the time of the first
\* call of the current run of calls with rollingMean > baseline * 1.2, and no
\* start after a call where the condition does not hold; a call returns an
\* anomaly exactly when the condition holds and at least minDurationSeconds
\* of wall-clock time have passed since the first call of its run, so a run
\* that begins after the condition cleared must again last that long.
C12_OverdrawSustained ==
    /\ \A i \in 1..Len(detLog) :
          detLog[i].fired <=>
              /\ detLog[i].breach
              /\ detLog[i].at - detLog[EpisodeStart(detLog, i)].at
                    >= OverdrawMinDurationSeconds
    /\ Len(detLog) > 0 =>
          overdrawStart = IF detLog[Len(detLog)].breach
                          THEN Some(detLog[EpisodeStart(detLog, Len(detLog))].at)
                          ELSE None

\* A run over the threshold fired, the condition cleared, and a later call
\* over the threshold, more than minDurationSeconds after the first run began,
\* did not fire.
C12_Witness ==
    \E i, j, k \in 1..Len(detLog) :
        /\ i < j /\ j < k
        /\ detLog[i].fired
        /\ ~detLog[j].breach
        /\ detLog[k].breach /\ ~detLog[k].fired
        /\ detLog[k].at - detLog[1].at >= OverdrawMinDurationSeconds

\* C13: MismatchDetector.detect returns no anomaly on a call whose feederPower
\* is below 0.5 kW, whatever sumNodePower is and whatever breach is pending
\* from earlier calls.
C13_NoMismatchBelowFloor ==
    \A i \in 1..Len(detLog) :
        detLog[i].value < FeederMinKw * 10000 => ~detLog[i].fired

\* A call below the feeder floor was made while a breach had been pending for
\* at least minDurationSeconds, and returned nothing; a call at or above the
\* floor has fired.
C13_Witness ==
    /\ \E i \in 1..Len(detLog) :
          /\ detLog[i].value < FeederMinKw * 10000
          /\ detLog[i].breach
          /\ ~detLog[i].fired
    /\ \E i \in 1..Len(detLog) : detLog[i].fired

\* the artificialOutage and artificialDisaster record of every transformer
OverrideRecords(ts) ==
    [id \in DOMAIN ts |-> <<ts[id].artificialOutage, ts[id].artificialDisaster>>]

\* the city has no state in the store, or has no transformer with this id
NotFound(id) == ~cityCreated \/ id \notin DOMAIN tstate

\* a step of one of the four control operations called with transformer id
ControlOpOn(id) ==
    \/ \E dm \in DurationSamples : TriggerArtificialOutage(id, dm)
    \/ ClearArtificialOutage(id)
    \/ \E dis \in DisasterSamples, dm \in DurationSamples :
          TriggerArtificialDisaster(dis.kind, id, dm, dis.parameters)
    \/ ClearArtificialDisaster(id)

\* C14: triggerArtificialOutage, clearArtificialOutage, triggerArtificialDisaster
\* and clearArtificialDisaster, called for a city with no state in the store or
\* with a transformerId the city does not have, return success = false and
\* leave every transformer's artificialOutage and artificialDisaster unchanged.
C14_NotFoundLeavesRecords ==
    [][\A id \in TargetSamples :
          (ControlOpOn(id) /\ NotFound(id))
              => /\ lastResult' = Some(FALSE)
                 /\ OverrideRecords(tstate') = OverrideRecords(tstate)]_vars

\* An operation on an unknown transformer has just failed in a city where a
\* transformer carries an override record, and the record is still there.
C14_Witness ==
    /\ cityCreated
    /\ lastResult = Some(FALSE)
    /\ nOps = MaxOps
    /\ \E id \in DOMAIN tstate :
          tstate[id].artificialOutage # None \/ tstate[id].artificialDisaster # None

\* the metrics for transformer id in response r
MetricsOf(r, id) ==
    CHOOSE m \in {r.transformers[i] : i \in DOMAIN r.transformers} : m.ID = id

\* an override record with a duration whose elapsed time at t exceeds it
RecordExpired(rec, t) ==
    rec # None /\ rec[1].duration # 0 /\ t - rec[1].startTime > rec[1].duration

\* C15: a transformer holds at most one artificialOutage and at most one
\* artificialDisaster record; a trigger on a transformer that already has a
\* record of that kind leaves exactly the new record (new startTime and
\* duration, and for a disaster the new kind and parameters); and a tick that
\* finds a record expired, or finds none because an earlier check deleted it,
\* reports it inactive and leaves no record.
C15_OneRecordReplacedAndExpired ==
    /\ [](\A id \in DOMAIN tstate :
            /\ Len(tstate[id].artificialOutage) <= 1
            /\ Len(tstate[id].artificialDisaster) <= 1)
    /\ [][\A dm \in DurationSamples :
            (cityCreated /\ TriggerArtificialOutage("T1", dm))
                => tstate'["T1"].artificialOutage =
                      <<[startTime |-> now, duration |-> dm * 60]>>]_vars
    /\ [][\A dis \in OverrideDisasters, dm \in DurationSamples :
            (cityCreated /\ TriggerArtificialDisaster(dis.kind, "T1", dm, dis.parameters))
                => tstate'["T1"].artificialDisaster =
                      <<[kind |-> dis.kind, startTime |-> now, duration |-> dm * 60,
                         parameters |-> dis.parameters]>>]_vars
    /\ [][TickStep =>
            \A id \in DOMAIN tstate :
                /\ (tstate[id].artificialOutage = None
                        \/ RecordExpired(tstate[id].artificialOutage, now))
                      => /\ ~MetricsOf(resp', id).isInOutage
                         /\ tstate'[id].artificialOutage = None
                /\ (tstate[id].artificialDisaster = None
                        \/ RecordExpired(tstate[id].artificialDisaster, now))
                      => /\ MetricsOf(resp', id).artificialDisaster = "null"
                         /\ tstate'[id].artificialDisaster = None]_vars

\* Two operations have run, the last one a trigger that succeeded; a tick read
\* the brownout while it was active (each household at 4.3 kW), and a later
\* tick found it expired: the households are back at the meter reading, the
\* response reports no disaster and the record is gone.
C15_Witness ==
    /\ nOps = MaxOps /\ lastResult = Some(TRUE)
    /\ nCalls = MaxOverrideTicks /\ calls = {}
    /\ tstate["T1"].artificialDisaster = None
    /\ MetricsOf(resp, "T1").artificialDisaster = "null"
    /\ \A h \in HouseholdsOf("T1") :
          \E i \in DOMAIN hstate[h].loadHistory :
              /\ i < Len(hstate[h].loadHistory)
              /\ hstate[h].loadHistory[i].loadKw = 43
              /\ hstate[h].loadHistory[i + 1].loadKw = MaxKw

\* the loads the effect of disaster ad can give a reading of loadKw
TransformedLoads(ad, loadKw, capacityKw) ==
    {applyArtificialDisasterEffects(ad, loadKw, capacityKw, r1, r2).loadKw :
        r1 \in RandomSamples, r2 \in RandomSamples}

\* no artificial outage is active at time t
NoActiveOutage(ts, t) ==
    ts.artificialOutage = None \/ RecordExpired(ts.artificialOutage, t)

\* C16: a disaster triggered with a duration of d minutes is applied by every
\* tick that runs while at most d minutes have elapsed: the tick keeps the
\* record, reports the disaster, and (no outage being active) stores for each
\* household the transformed reading.  A tick that runs after more than d
\* minutes deletes the record, reports artificialDisaster = null and stores the
\* readings untransformed.  A record disappears only in a tick: the clock
\* passing the deadline leaves it in place.  (Every reading is MaxKw here.)
C16_DisasterExpiresAtRead ==
    /\ [][TickStep =>
            \A id \in DOMAIN tstate :
                LET ts == tstate[id]
                    m == MetricsOf(resp', id)
                IN  (ts.artificialDisaster # None /\ ts.artificialDisaster[1].duration > 0)
                      => IF now - ts.artificialDisaster[1].startTime
                               <= ts.artificialDisaster[1].duration
                         THEN /\ m.artificialDisaster = ts.artificialDisaster[1].kind
                              /\ tstate'[id].artificialDisaster = ts.artificialDisaster
                              /\ NoActiveOutage(ts, now) =>
                                    \A i \in DOMAIN m.householdLoads :
                                        m.householdLoads[i] \in
                                            TransformedLoads(ts.artificialDisaster[1],
                                                             MaxKw, ts.capacityKw)
                         ELSE /\ m.artificialDisaster = "null"
                              /\ tstate'[id].artificialDisaster = None
                              /\ NoActiveOutage(ts, now) =>
                                    \A i \in DOMAIN m.householdLoads :
                                        m.householdLoads[i] = MaxKw]_vars
    /\ [][(\E id \in DOMAIN tstate :
              /\ tstate[id].artificialDisaster # None
              /\ tstate'[id].artificialDisaster = None) => TickStep]_vars

\* No outage was ever triggered.  A tick ran while a heatwave was active and
\* stored each household's transformed reading (11.4 kW for 8 kW); the next
\* tick ran after the deadline: it stored the reading itself, reported no
\* disaster and deleted the record.
C16_Witness ==
    /\ cityCreated /\ resp # NoResponse
    /\ \A id \in TransformerIds : lastTrigger[id] = None
    /\ tstate["T1"].artificialDisaster = None
    /\ MetricsOf(resp, "T1").artificialDisaster = "null"
    /\ \A h \in HouseholdsOf("T1") :
          LET n == Len(hstate[h].loadHistory)
          IN  /\ n >= 2
              /\ hstate[h].loadHistory[n - 1].loadKw = 114
              /\ hstate[h].loadHistory[n].loadKw = MaxKw

\* the metrics and the result of the aggregateSummary call made
SummaryMetrics == summaryCall[1].metrics
SummaryResult == summaryCall[1].result

\* w_i: NumDownstreamBuildings, at least 1
ClaimedWeight(m) == Max(1, m.NumDownstreamBuildings)

\* u_i doubled: 3.0, 1.5 or 1.0 for a Critical, Warning or Good transformer
ClaimedUrgency(m) ==
    CASE m.bghi.status = "Critical" -> 6
      [] m.bghi.status = "Warning" -> 3
      [] m.bghi.status = "Good" -> 2

\* the sums of bghi_i * w_i * u_i (hundredths) and of w_i * u_i, both doubled
ClaimedNumerator(ms) ==
    SeqSum([i \in DOMAIN ms |->
               ms[i].bghi.bghiScore * ClaimedWeight(ms[i]) * ClaimedUrgency(ms[i])])
ClaimedDenominator(ms) ==
    SeqSum([i \in DOMAIN ms |-> ClaimedWeight(ms[i]) * ClaimedUrgency(ms[i])])

\* nine transformers at BGHI 100 with 200 buildings and one at BGHI 45 with 500
WorkedExample == MetricsOfCounts(<<9, 1, 0, 0>>)

\* C17 (as claimed): the score of the city summary equals the sum of
\* bghi_i * w_i * u_i divided by the sum of w_i * u_i.
C17_ScoreIsWeightedMean ==
    (summaryCall # None /\ SummaryMetrics # <<>>)
        => SummaryResult.bghiScore * ClaimedDenominator(SummaryMetrics)
               = ClaimedNumerator(SummaryMetrics)

\* C17 (amended): the score of the city summary is the sum of
\* bghi_i * w_i * u_i divided by the sum of w_i * u_i, rounded to two decimals
\* (it is within 0.005 of the quotient), with w_i = NumDownstreamBuildings (at
\* least 1) and u_i = 3.0, 1.5, 1.0 for a Critical, Warning, Good transformer;
\* for nine transformers at BGHI 100 (200 buildings) and one at BGHI 45 (500
\* buildings, Critical) the score is 75.00 and the city status is Warning.
C17_ScoreIsRoundedWeightedMean ==
    (summaryCall # None /\ SummaryMetrics # <<>>)
        => /\ 2 * (SummaryResult.bghiScore * ClaimedDenominator(SummaryMetrics)
                      - ClaimedNumerator(SummaryMetrics))
                  <= ClaimedDenominator(SummaryMetrics)
           /\ 2 * (ClaimedNumerator(SummaryMetrics)
                      - SummaryResult.bghiScore * ClaimedDenominator(SummaryMetrics))
                  <= ClaimedDenominator(SummaryMetrics)
           /\ SummaryMetrics = WorkedExample
                  => /\ SummaryResult.bghiScore = 7500
                     /\ SummaryResult.status = "Warning"

\* aggregateSummary was called on the worked example: nine Good transformers
\* at BGHI 100 and one Critical transformer at BGHI 45.
C17_Witness ==
    /\ summaryCall # None
    /\ SummaryMetrics = WorkedExample
    /\ Len(SummaryMetrics) = 10
    /\ \A i \in 1..9 : /\ SummaryMetrics[i].bghi.bghiScore = 10000
                         /\ SummaryMetrics[i].bghi.status = "Good"
                         /\ SummaryMetrics[i].NumDownstreamBuildings = 200
    /\ SummaryMetrics[10].bghi.bghiScore = 4500
    /\ SummaryMetrics[10].bghi.status = "Critical"
    /\ SummaryMetrics[10].NumDownstreamBuildings = 500
    /\ SummaryResult.bghiScore = 7500

\* the transformers of ms whose load is at warning level or worse (65 % and up)
WarningOrWorse(ms) == {i \in DOMAIN ms : ms[i].loadPercentage >= 650}

\* the tier of the weighted score num/den (hundredths)
ClaimedTier(num, den) ==
    IF num >= 8000 * den THEN "Good"
    ELSE IF num >= 6000 * den THEN "Warning"
    ELSE "Critical"

\* C18 (as claimed): the city status is Warning whenever at least 30 % of the
\* transformers are at warning load or worse, transformers at critical load
\* counted too, whatever the weighted score; otherwise it is the tier of the
\* weighted score: Good from 80, Warning from 60, Critical below.
C18_EscalatesOnWarningOrWorse ==
    (summaryCall # None /\ SummaryMetrics # <<>>)
        => SummaryResult.status =
               IF 10 * Cardinality(WarningOrWorse(SummaryMetrics))
                      >= 3 * Len(SummaryMetrics)
               THEN "Warning"
               ELSE ClaimedTier(ClaimedNumerator(SummaryMetrics),
                                ClaimedDenominator(SummaryMetrics))

\* the components and the result of the calculateBGHI call made
BghiComponents == bghiCall[1].components
BghiResult == bghiCall[1].result

\* the six weights added up, in hundredths
WeightSum ==
    DEFAULT_WEIGHTS.loadStress + DEFAULT_WEIGHTS.outageScore
    + DEFAULT_WEIGHTS.powerQuality + DEFAULT_WEIGHTS.anomalyFrequency
    + DEFAULT_WEIGHTS.environmentalStress + DEFAULT_WEIGHTS.mismatchScore

\* C19: the default weights add up to exactly 1; calculateBGHI returns a
\* bghiScore in [0, 100] for every six components, also components above 100
\* or below 0; and when every component is in [0, 100], the deterioration is
\* in [0, 100] and the clamp changes nothing: the score is 100 minus the
\* deterioration (each returned to two decimals).
C19_ScoreWithinRange ==
    /\ WeightSum = 100
    /\ bghiCall # None =>
          /\ BghiResult.bghiScore >= 0 /\ BghiResult.bghiScore <= 10000
          /\ (\A k \in DOMAIN BghiComponents :
                  BghiComponents[k] >= 0 /\ BghiComponents[k] <= 10000)
                => /\ deterioration(BghiComponents, DEFAULT_WEIGHTS) >= 0
                   /\ deterioration(BghiComponents, DEFAULT_WEIGHTS) <= 1000000
                   /\ BghiResult.deterioration >= 0
                   /\ BghiResult.deterioration <= 10000
                   /\ BghiResult.bghiScore =
                         toFixed([num |-> 1000000
                                          - deterioration(BghiComponents, DEFAULT_WEIGHTS),
                                  den |-> 100])

\* calculateBGHI was called with a component above 100 and one below 0 and a
\* weighted deterioration above 100: the score came out as 0.
C19_Witness ==
    /\ bghiCall # None
    /\ BghiComponents.loadStress > 10000
    /\ BghiComponents.mismatchScore < 0
    /\ deterioration(BghiComponents, DEFAULT_WEIGHTS) > 1000000
    /\ BghiResult.bghiScore = 0

\* C20 (as claimed): the status and the color of a result follow from the
\* bghiScore the result carries: Good and green from 80, Warning and amber
\* from 60 to below 80, Critical and red below 60; so no result has a score of
\* 80.00 with status Warning or of 60.00 with status Critical.
C20_StatusFollowsReturnedScore ==
    bghiCall # None =>
        /\ BghiResult.status =
               IF BghiResult.bghiScore >= 8000 THEN "Good"
               ELSE IF BghiResult.bghiScore >= 6000 THEN "Warning"
               ELSE "Critical"
        /\ BghiResult.color =
               IF BghiResult.bghiScore >= 8000 THEN "green"
               ELSE IF BghiResult.bghiScore >= 6000 THEN "amber"
               ELSE "red"

----------------------------------------------------------------------------
(* Claims about a persisting artificial outage *)

\* the transformers whose detectors' results are used
DetectingIds == {id \in TransformerIds : detectsAnomalies(CsvRow(id).EntityType)}

\* transformer id has an artificial outage that is active at the present time
OutageActiveNow(id) ==
    /\ tstate[id].artificialOutage # None
    /\ ~RecordExpired(tstate[id].artificialOutage, now)

\* the wall-clock times of earlier ticks since which every tick has seen zero
\* load on transformer id: a detecting transformer's outageStart is the time
\* of the first tick of its current run of zero loads, and a substation shows
\* zero load in every tick, so for it any such tick time counts
ZeroLoadSeenSince(id) ==
    {tstate[p].outageStart[1] :
        p \in {q \in DetectingIds :
                  /\ tstate[q].outageStart # None
                  /\ (q = id \/ CsvRow(id).EntityType = "SubstationTransformer")}}

\* the outage flags of transformer id that are set and within the last 24 hours
OutageTicksBefore(id) ==
    Cardinality({i \in DOMAIN tstate[id].outageFlags :
                    /\ tstate[id].outageFlags[i].isOutage
                    /\ tstate[id].outageFlags[i].timestamp >= now - MAX_HISTORY})

\* a tick, for every transformer of ids with an active artificial outage:
\* the transformer shows 0 kW and a larger outage-minutes counter, and once
\* its zero load has been seen for 60 s the tick records an OUTAGE anomaly
OutageTick(ids) ==
    TickStep =>
        \A id \in ids :
            OutageActiveNow(id) =>
                /\ MetricsOf(resp', id).totalLoad = 0
                /\ MetricsOf(resp', id).artificialOutageActive
                /\ MetricsOf(resp', id).outageMinutes4 > OutageTicksBefore(id)
                /\ (\E s \in ZeroLoadSeenSince(id) :
                       secondsBetween(s, now) >= OutageMinDurationSeconds)
                   => \E i \in DOMAIN tstate'[id].anomalies :
                         /\ tstate'[id].anomalies[i] =
                               [anomalyType |-> "OUTAGE", timestamp |-> now]
                         /\ tstate'[id].anomalies[i]
                               \in {MetricsOf(resp', id).anomalies[j] :
                                       j \in DOMAIN MetricsOf(resp', id).anomalies}

OutageOpOn(a) ==
    \/ \E dm \in DurationSamples : TriggerArtificialOutage(a, dm)
    \/ ClearArtificialOutage(a)
    \/ (a \in TransformerIds /\ CheckArtificialOutage(a))

\* C22: artificial outages on several transformers are independent.  A trigger,
\* a clear or an expiry check on transformer a leaves the whole state of every
\* other transformer b (its artificialOutage and artificialDisaster records,
\* detector state and histories) and every household unchanged; and in a tick
\* each transformer b keeps or loses its record, and has its household loads
\* zeroed or read, according to b's own record alone, whatever the records of
\* the others.  (Every reading is MaxKw and no disaster is triggered here.)
C22_OutagesAreIndependent ==
    /\ [][\A a \in RequestIds :
            OutageOpOn(a) =>
                /\ \A b \in DOMAIN tstate \ {a} : tstate'[b] = tstate[b]
                /\ hstate' = hstate
                /\ meters' = meters]_vars
    /\ [][TickStep =>
            \A b \in DOMAIN tstate :
                /\ tstate'[b].artificialOutage =
                      IF NoActiveOutage(tstate[b], now) THEN None
                      ELSE tstate[b].artificialOutage
                /\ tstate'[b].artificialDisaster = tstate[b].artificialDisaster
                /\ \A i \in DOMAIN MetricsOf(resp', b).householdLoads :
                      MetricsOf(resp', b).householdLoads[i] =
                          IF NoActiveOutage(tstate[b], now) THEN MaxKw ELSE 0]_vars

\* Outages were triggered on both pole transformers; a tick found the one on
\* T1 expired and the one on T2 active: T1 is back at its two readings and has
\* no record, T2 still has its record and shows 0 kW.
C22_Witness ==
    /\ cityCreated /\ resp # NoResponse
    /\ lastTrigger["T1"] # None /\ lastTrigger["T2"] # None
    /\ tstate["T1"].artificialOutage = None
    /\ MetricsOf(resp, "T1").totalLoad = 2 * MaxKw
    /\ tstate["T2"].artificialOutage # None
    /\ MetricsOf(resp, "T2").totalLoad = 0
    /\ MetricsOf(resp, "T2").artificialOutageActive

----------------------------------------------------------------------------
(* Claims about the forecaster *)

\* the forecast24h call made, and what it returned
ForecastCall == forecastCall[1]
ForecastPoints == forecastCall[1].outcome.points

\* C23: forecast24h called on a forecaster whose baseline is empty (never set,
\* or set to an empty map) raises an error and returns no list; called with a
\* baseline set, it returns exactly 24 points, the i-th with offsetHours i - 1
\* and hour (currentHour + offsetHours) mod 24.
C23_ForecastNeedsBaseline ==
    forecastCall # None =>
        IF DOMAIN ForecastCall.baseline = {}
        THEN ForecastCall.outcome.threw /\ ForecastPoints = <<>>
        ELSE /\ ~ForecastCall.outcome.threw
             /\ Len(ForecastPoints) = 24
             /\ \A i \in 1 .. 24 :
                   /\ ForecastPoints[i].offsetHours = i - 1
                   /\ ForecastPoints[i].hour
                         = (ForecastCall.currentHour + (i - 1)) % 24

\* forecast24h was called with no baseline and threw
C23_Witness ==
    /\ forecastCall # None
    /\ hourlyBaseline = EmptyBaseline
    /\ ForecastCall.outcome.threw

\* the assessOverloadRisk call made: its predictions and its result
AlertPoints == alertCall[1].predictions
AlertResult == alertCall[1].result

\* the predictions that qualify: riskRatio >= 0.9 and offsetHours >= 2
Qualifying ==
    {i \in DOMAIN AlertPoints :
        AlertPoints[i].riskRatio >= 900 /\ AlertPoints[i].offsetHours >= 2}

\* C24: assessOverloadRisk returns null exactly when no point qualifies;
\* otherwise the alert carries the hour, offset, load and riskRatio of the
\* qualifying point with the smallest offsetHours (so hoursAhead is never 0 or
\* 1) and criticalHoursCount is the number of qualifying points.
C24_AlertFromEarliestQualifying ==
    alertCall # None =>
        /\ (AlertResult = None) <=> (Qualifying = {})
        /\ Qualifying # {} =>
              \E i \in Qualifying :
                  /\ \A j \in Qualifying :
                        AlertPoints[i].offsetHours <= AlertPoints[j].offsetHours
                  /\ AlertResult[1].hoursAhead = AlertPoints[i].offsetHours
                  /\ AlertResult[1].firstCriticalHour = AlertPoints[i].hour
                  /\ AlertResult[1].predictedLoadKw = AlertPoints[i].predictedLoadKw
                  /\ AlertResult[1].riskRatio = AlertPoints[i].riskRatio
                  /\ AlertResult[1].hoursAhead >= 2
                  /\ AlertResult[1].criticalHoursCount = Cardinality(Qualifying)

\* every point of the forecast is at or above capacity, the first two
\* included, and the alert is for the point two hours ahead, 22 hours counted
C24_Witness ==
    /\ alertCall # None
    /\ \A i \in DOMAIN AlertPoints : AlertPoints[i].riskRatio >= 1000
    /\ AlertResult # None
    /\ AlertResult[1].hoursAhead = 2
    /\ AlertResult[1].criticalHoursCount = 22

\* the width of the confidence interval of the i-th point, in hundredths of a kW
Width(i) == ForecastPoints[i].confidenceUpper - ForecastPoints[i].confidenceLower

\* C25 (as claimed): the width confidenceUpper - confidenceLower of the points
\* forecast24h returns never decreases from one offset to the next.
C25_WidthNonDecreasing ==
    (forecastCall # None /\ ~ForecastCall.outcome.threw) =>
        \A i \in 1 .. 23 : Width(i) <= Width(i + 1)

----------------------------------------------------------------------------
(* Claims about the dashboard call *)

\* a step in which a waiting call resumes after a weather lookup without real
\* data: no coordinates, no API key, or a failed request
FailedLookupTick ==
    \E c \in calls, outcome \in LookupOutcomes \ {"ok"} :
        ResumeGetDashboardData(c, outcome, {MaxKw}, {90}, NoiseSamples)

\* C26: a getDashboardData call whose weather lookup fails, or has no API key
\* or coordinates to use, still runs its tick and returns: the response
\* carries (mock) weather and one metrics entry per transformer, and every
\* transformer has been updated exactly once, with the call's timestamp.
C26_WeatherFailureKeepsTick ==
    [][FailedLookupTick =>
          /\ resp' # NoResponse
          /\ resp'.weather = "mock"
          /\ Len(resp'.transformers) = Cardinality(TransformerIds)
          /\ {resp'.transformers[i].ID : i \in DOMAIN resp'.transformers} = TransformerIds
          /\ \A id \in TransformerIds :
                /\ Len(tstate'[id].history) = Len(tstate[id].history) + 1
                /\ tstate'[id].history[Len(tstate'[id].history)].timestamp
                      = resp'.updatedAt
                /\ Len(tstate'[id].outageFlags) = Len(tstate[id].outageFlags) + 1
                /\ Len(tstate'[id].mismatchRatios)
                      = Len(tstate[id].mismatchRatios) + 1]_vars

\* the last call to return did so with mock weather, having added its sample
\* to every transformer's history
C26_Witness ==
    /\ cityCreated /\ resp # NoResponse
    /\ resp.weather = "mock"
    /\ \A id \in TransformerIds :
          /\ Len(tstate[id].history) >= 2
          /\ \E i \in DOMAIN tstate[id].history :
                i > 1 /\ tstate[id].history[i].timestamp = resp.updatedAt

\* a getDashboardData call for the city without topology
FailedCityCall ==
    \E city \in UnsupportedCities : GetDashboardDataUnsupported(city, MaxFailedCalls)

\* C27: every getDashboardData call for a city without configured topology
\* ends with an error and no result, the first and every later one; the store
\* never gets a state for the city, the states of other cities are untouched,
\* and every control operation for the city returns success = false.
C27_UnsupportedCityFails ==
    /\ [](/\ ~unsupported.inStore
          /\ unsupported.outcome \in {"none", "error"}
          /\ unsupported.opResult \in {None, Some(FALSE)})
    /\ [][FailedCityCall =>
            /\ unsupported'.outcome = "error"
            /\ ~unsupported'.inStore
            /\ <<cityCreated, tstate, hstate, meters, resp>>'
                  = <<cityCreated, tstate, hstate, meters, resp>>]_vars

\* a second call for the city has failed like the first, and a control
\* operation for it has returned success = false
C27_Witness ==
    /\ unsupported.nCalls = MaxFailedCalls
    /\ unsupported.outcome = "error"
    /\ ~unsupported.inStore
    /\ unsupported.opResult = Some(FALSE)

----------------------------------------------------------------------------
(* Claims about the rolling window's statistics and a constant input *)

\* C28 (as claimed): on a window with no samples mean(), std(), min(), max()
\* and latest() all return 0; on a window with exactly one sample std() is 0.
C28_EmptyWindowStatisticsAreZero ==
    /\ Len(window.values) = 0 =>
          /\ mean(window).num = 0
          /\ stdSquared(window).num = 0
          /\ windowMin(window) = 0
          /\ windowMax(window) = 0
          /\ latest(window) = Some(0)
    /\ Len(window.values) = 1 => stdSquared(window).num = 0

\* a step of SpikeDetector.detect(c) on a window that holds samples and whose
\* samples all equal c
ConstantDetect(c) ==
    /\ SpikeDetectCall(c)
    /\ Len(window.values) > 0
    /\ \A i \in DOMAIN window.values : window.values[i] = c

\* C29: a detect(c) call on a window whose samples all equal c (so c is the
\* rolling mean and std is 0) is no breach, returns no anomaly and leaves the
\* counter at 0, so no number of such calls in a row fires; this holds for c
\* below and above absoluteMinKw.
C29_ConstantInputNeverFires ==
    [][\A c \in SpikeValues :
          ConstantDetect(c) =>
              /\ ~detLog'[Len(detLog')].breach
              /\ ~detLog'[Len(detLog')].fired
              /\ spikeCounter' = 0]_vars

\* every detect call so far passed 40 kW (above absoluteMinKw) to a window that
\* has only ever held 40 kW samples (it has not yet evicted one, and an empty
\* window would have made the call a breach); there were as many calls as the
\* model explores and none fired
C29_Witness ==
    /\ Len(window.values) \in 1 .. (WindowSize - 1)
    /\ \A i \in DOMAIN window.values : window.values[i] = 400
    /\ Len(detLog) = MaxCalls
    /\ \A i \in DOMAIN detLog :
          detLog[i].value = 400 /\ ~detLog[i].breach /\ ~detLog[i].fired

----------------------------------------------------------------------------
(* Claims about the load generator *)

\* the day of the week of a timestamp, counted from Thursday 1 January 1970
DayName(timestamp) ==
    <<"Thursday", "Friday", "Saturday", "Sunday", "Monday", "Tuesday",
      "Wednesday">>[((timestamp \div 86400) % 7) + 1]

\* C30 (as claimed): the generator applies the weekend factor to a sample
\* exactly when the sample's timestamp falls on a Saturday or a Sunday.
C30_DampenedOnSaturdayAndSunday ==
    sampleCall # None =>
        (sampleCall[1].dampened
            <=> DayName(sampleCall[1].timestamp) \in {"Saturday", "Sunday"})

----------------------------------------------------------------------------
(* Claims about the histories kept for 24 hours *)

\* every entry of a list of samples is stamped no earlier than 24 hours
\* before time t
RetainedWithin(items, t) ==
    \A i \in DOMAIN items : items[i].timestamp >= t - MAX_HISTORY

\* The ticks of the 24 hours before time t, counted on the transformer's
\* rolling window: it holds the sample of city creation followed by one
\* sample per tick, stamped with the tick's timestamp, and is not pruned by
\* time.
TicksWithin(ts, t) ==
    Cardinality({i \in 2..Len(ts.rollingStats.timestamps) :
                    ts.rollingStats.timestamps[i] >= t - MAX_HISTORY})

\* 1 while the samples recorded at city creation are less than 24 hours old
SeedWithin(ts, t) ==
    IF ts.rollingStats.timestamps[1] >= t - MAX_HISTORY THEN 1 ELSE 0

\* after a tick at wall-clock time t: every retained entry of the five lists
\* is at most 24 hours old, and the reported outage minutes and spike count
\* are counted on the retained entries
RetainedAfterTick(ts, hs, metrics, t) ==
    /\ \A id \in DOMAIN ts :
          /\ RetainedWithin(ts[id].history, t)
          /\ RetainedWithin(ts[id].outageFlags, t)
          /\ RetainedWithin(ts[id].mismatchRatios, t)
          /\ \A i \in DOMAIN ts[id].spikeEvents : ts[id].spikeEvents[i] >= t - MAX_HISTORY
    /\ \A h \in DOMAIN hs : RetainedWithin(hs[h].loadHistory, t)
    /\ \A i \in DOMAIN metrics :
          /\ metrics[i].outageMinutes4 =
                Len(SelectSeq(ts[metrics[i].ID].outageFlags, LAMBDA f : f.isOutage))
          /\ metrics[i].spikeEvents24h = Len(ts[metrics[i].ID].spikeEvents)

\* the lengths of the five lists are at most `extra` more than the number of
\* ticks of the 24 hours before t, for the lists that are seeded at city
\* creation, and at most that number for the other two
LengthsBounded(ts, hs, t, extra) ==
    /\ \A id \in DOMAIN ts :
          /\ Len(ts[id].history) <= TicksWithin(ts[id], t) + extra[id]
          /\ Len(ts[id].outageFlags) <= TicksWithin(ts[id], t) + extra[id]
          /\ Len(ts[id].mismatchRatios) <= TicksWithin(ts[id], t)
          /\ Len(ts[id].spikeEvents) <= TicksWithin(ts[id], t)
    /\ \A h \in DOMAIN hs :
          Len(hs[h].loadHistory)
              <= TicksWithin(ts[hs[h].transformerId], t) + extra[hs[h].transformerId]

\* C31 (as claimed): after every tick, every entry of each transformer's
\* history, outageFlags, mismatchRatios and spikeEvents and of each
\* household's loadHistory is at most 24 hours old, the length of each list
\* is at most the number of ticks of the last 24 hours, and outage minutes
\* and spike counts are counted on the retained entries.
C31_HistoryBoundedByTicks ==
    [][TickStep =>
          /\ RetainedAfterTick(tstate', hstate', resp'.transformers, now)
          /\ LengthsBounded(tstate', hstate', now,
                            [id \in DOMAIN tstate' |-> 0])]_vars

\* C31 (amended): after every tick, every entry of the five lists is at most
\* 24 hours old and outage minutes and spike counts are counted on the
\* retained entries; mismatchRatios and spikeEvents hold at most one entry per
\* tick of the last 24 hours, and history, outageFlags and loadHistory at
\* most one more, the sample recorded at city creation, while that sample is
\* less than 24 hours old.
C31_HistoryBoundedByTicksAndSeed ==
    [][TickStep =>
          /\ RetainedAfterTick(tstate', hstate', resp'.transformers, now)
          /\ LengthsBounded(tstate', hstate', now,
                            [id \in DOMAIN tstate' |-> SeedWithin(tstate'[id], now)])]_vars

\* A tick has just dropped samples more than 24 hours old from the pole
\* transformer's history while a spike event stamped exactly 24 hours before
\* the tick is retained and counted.
C31_Witness ==
    /\ cityCreated
    /\ resp.updatedAt = now
    /\ Len(tstate["T1"].history) < Len(tstate["T1"].rollingStats.values)
    /\ \E i \in DOMAIN tstate["T1"].spikeEvents :
          tstate["T1"].spikeEvents[i] = now - MAX_HISTORY
    /\ \E m \in LastMetrics : m.ID = "T1" /\ m.spikeEvents24h = 1

----------------------------------------------------------------------------
(* Claims about the topology of a created city *)

\* max(100, NumDownstreamBuildings x 5) kW for the CSV row of transformer id
ClaimedCapacity(id) ==
    IF CsvRow(id).NumDownstreamBuildings * 50 > 1000
    THEN CsvRow(id).NumDownstreamBuildings * 50 ELSE 1000

\* the part of the city state that is fixed at creation
Topology(ts, hs) ==
    [capacityKw |-> [id \in DOMAIN ts |-> ts[id].capacityKw],
     householdIds |-> [id \in DOMAIN ts |-> ts[id].householdIds],
     transformerId |-> [h \in DOMAIN hs |-> hs[h].transformerId]]

\* C32: once the city state exists, no tick and no control operation changes
\* a transformer's capacityKw = max(100, NumDownstreamBuildings x 5), its
\* householdIds, the set of transformers and households of the city or a
\* household's transformerId; the loadPercentage of every tick is the
\* reported load over that capacity, times 100 (to one decimal).
C32_TopologyIsFixed ==
    /\ [](cityCreated =>
            \A id \in DOMAIN tstate : tstate[id].capacityKw = ClaimedCapacity(id))
    /\ [][cityCreated =>
            /\ cityCreated'
            /\ Topology(tstate', hstate') = Topology(tstate, hstate)]_vars
    /\ [][TickStep =>
            \A i \in DOMAIN resp'.transformers :
                resp'.transformers[i].loadPercentage =
                    toFixed([num |-> resp'.transformers[i].totalLoad * 1000,
                             den |-> ClaimedCapacity(resp'.transformers[i].ID)])]_vars

\* A tick ran under an earthquake that did not force an outage: the pole
\* transformer reports a reduced, positive load as a percentage of its 100 kW
\* while the substation keeps the 150 kW of its thirty buildings.
C32_Witness ==
    /\ cityCreated
    /\ tstate["S1"].capacityKw = 1500
    /\ \E m \in LastMetrics :
          /\ m.ID = "T1"
          /\ m.artificialDisaster = "earthquake"
          /\ ~m.forcedDisasterOutage
          /\ m.totalLoad > 0
          /\ m.loadPercentage = m.totalLoad
          /\ tstate["T1"].capacityKw = 1000

----------------------------------------------------------------------------
(* Claims about the outage flag of a tick *)

\* the CSV entity type of the transformer of metrics m
EntityTypeOf(m) == CsvRow(m.ID).EntityType

\* C33 (as claimed): a tick flags a transformer as in outage
\* (artificialOutageActive, an isOutage entry, outage minutes) only if an
\* artificial outage is active, a disaster forced an outage, or the
\* transformer's households draw less than 0.1 kW in total; a substation with
\* no outage and no disaster is never flagged and its outage minutes, and so
\* its outageScore, stay 0.
C33_OutageFlagNeedsCause ==
    \A m \in LastMetrics :
        /\ m.artificialOutageActive =>
              \/ m.isInOutage
              \/ m.forcedDisasterOutage
              \/ HouseholdsOf(m.ID) # {} /\ StoredSum(tstate[m.ID].householdIds) < 1
        /\ (/\ EntityTypeOf(m) = "SubstationTransformer"
            /\ ~m.isInOutage
            /\ m.artificialDisaster = "null")
           => /\ ~m.artificialOutageActive
              /\ ~tstate[m.ID].outageFlags[Len(tstate[m.ID].outageFlags)].isOutage
              /\ m.outageMinutes4 = 0

----------------------------------------------------------------------------
(* Claims about the feeder reading *)

\* the transformers whose anomaly log holds a METER_MISMATCH anomaly
MismatchLogged ==
    {id \in DOMAIN tstate :
        \E i \in DOMAIN tstate[id].anomalies :
            tstate[id].anomalies[i].anomalyType = "METER_MISMATCH"}

\* C34: the feeder reading given to the mismatch detector is the transformer
\* load times a factor within [0.95, 1.05], so the detector never sees a
\* ratio of 0.12 or more: its mismatchStart is never set and no tick logs a
\* METER_MISMATCH anomaly.  A disaster's mismatchBias changes only the
\* recorded ratio, which is capped at 1; without a disaster the recorded
\* ratio stays below 0.12.
C34_NoMismatchFromNoise ==
    /\ [](cityCreated =>
            /\ MismatchLogged = {}
            /\ \A id \in DOMAIN tstate : tstate[id].mismatchStart = None)
    /\ [][TickStep =>
            \A i \in DOMAIN resp'.transformers :
                /\ resp'.transformers[i].mismatchRatio <= 1000
                /\ resp'.transformers[i].artificialDisaster = "null"
                      => resp'.transformers[i].mismatchRatio < 120]_vars

\* Two ticks half an hour apart each recorded a ratio of 0.12 or more for the
\* pole transformer under a disaster's bias, one with the feeder 5 % under the
\* load, and no mismatch anomaly was logged.
C34_Witness ==
    /\ cityCreated
    /\ MismatchLogged = {}
    /\ \E i, j \in DOMAIN tstate["T1"].mismatchRatios :
          /\ tstate["T1"].mismatchRatios[j].timestamp
                >= tstate["T1"].mismatchRatios[i].timestamp + MismatchMinDurationSeconds
          /\ tstate["T1"].mismatchRatios[i].ratio >= 120
          /\ tstate["T1"].mismatchRatios[j].ratio = 1000
    /\ \E m \in LastMetrics : m.ID = "T1" /\ m.mismatchRatio = 1000

----------------------------------------------------------------------------
(* Claims about the severity of the city status *)

\* the severity of a status: Good < Warning < Critical
Severity(status) ==
    CASE status = "Good" -> 0 [] status = "Warning" -> 1 [] OTHER -> 2

\* the weighted score aggregateSummary computes for the metrics of the call
WeightedTotals == weightedTotals(SummaryMetrics, [weightedSum |-> 0, totalWeight |-> 0])

\* C35 (as claimed): the city status is never less severe than the tier of
\* the weighted BGHI score: with a weighted score below 60 the status is
\* Critical, and the 30 % rule only raises Good to Warning.
C35_StatusAtLeastScoreTier ==
    (summaryCall # None /\ SummaryMetrics # <<>>)
        => Severity(SummaryResult.status)
               >= Severity(ClaimedTier(WeightedTotals.weightedSum,
                                       WeightedTotals.totalWeight))


----------------------------------------------------------------------------
(* Claims about overrides without a duration *)

\* the artificialOutage record of transformer id is removed by a step that is
\* not a clearArtificialOutage call
OutageRemovedOnItsOwn(id) ==
    /\ tstate[id].artificialOutage # None
    /\ tstate'[id].artificialOutage = None
    /\ ~ClearArtificialOutage(id)

\* the artificialDisaster record of transformer id is removed by a step that
\* is not a clearArtificialDisaster call
DisasterRemovedOnItsOwn(id) ==
    /\ tstate[id].artificialDisaster # None
    /\ tstate'[id].artificialDisaster = None
    /\ ~ClearArtificialDisaster(id)

\* a trigger with durationMinutes omitted or 0 stores a record without a
\* duration
StoredWithoutDuration ==
    [][\A id \in DOMAIN tstate :
          /\ (cityCreated /\ TriggerArtificialOutage(id, 0))
                => tstate'[id].artificialOutage
                      = Some([startTime |-> now, duration |-> 0])
          /\ \A dis \in IndefiniteDisasters :
                (cityCreated /\ TriggerArtificialDisaster(dis.kind, id, 0, dis.parameters))
                   => tstate'[id].artificialDisaster
                         = Some([kind |-> dis.kind, startTime |-> now,
                                 duration |-> 0, parameters |-> dis.parameters])]_vars

\* a record without a duration changes only by a clear or a new trigger, and
\* every check and tick until then finds it active
StaysUntilClearedOrReplaced ==
    [][\A id \in DOMAIN tstate :
          LET ao == tstate[id].artificialOutage
              ad == tstate[id].artificialDisaster
          IN  /\ (ao # None /\ ao[1].duration = 0)
                    => /\ tstate'[id].artificialOutage # ao
                          => \/ ClearArtificialOutage(id)
                             \/ \E dm \in AnyDurationSamples :
                                   TriggerArtificialOutage(id, dm)
                       /\ CheckArtificialOutage(id) => lastCheck'[1].result
                       /\ TickStep => /\ MetricsOf(resp', id).isInOutage
                                      /\ MetricsOf(resp', id).artificialOutageActive
              /\ (ad # None /\ ad[1].duration = 0)
                    => /\ tstate'[id].artificialDisaster # ad
                          => \/ ClearArtificialDisaster(id)
                             \/ \E dis \in IndefiniteDisasters, dm \in AnyDurationSamples :
                                   TriggerArtificialDisaster(dis.kind, id, dm,
                                                             dis.parameters)
                       /\ TickStep
                             => MetricsOf(resp', id).artificialDisaster = ad[1].kind]_vars

\* C36: an artificial outage or disaster triggered with durationMinutes
\* omitted or 0 is stored without a duration and stays active in every later
\* check and tick until it is cleared or replaced by a new trigger; and only
\* a record triggered with durationMinutes > 0 is ever removed on its own.
C36_OnlyPositiveDurationsExpire ==
    /\ StoredWithoutDuration
    /\ StaysUntilClearedOrReplaced
    /\ [][\A id \in DOMAIN tstate :
             /\ OutageRemovedOnItsOwn(id) => tstate[id].artificialOutage[1].duration > 0
             /\ DisasterRemovedOnItsOwn(id)
                   => tstate[id].artificialDisaster[1].duration > 0]_vars

\* C36, with the last part as the code has it: a record is removed on its own
\* only if it was triggered with a non-zero durationMinutes, at the first
\* check or tick after more than durationMinutes minutes have elapsed since
\* the trigger; for a negative durationMinutes that is the first check or
\* tick after the trigger.
C36_OnlyNonZeroDurationsExpire ==
    /\ StoredWithoutDuration
    /\ StaysUntilClearedOrReplaced
    /\ [][\A id \in DOMAIN tstate :
             /\ OutageRemovedOnItsOwn(id)
                   => /\ tstate[id].artificialOutage[1].duration # 0
                      /\ RecordExpired(tstate[id].artificialOutage, now)
             /\ DisasterRemovedOnItsOwn(id)
                   => /\ tstate[id].artificialDisaster[1].duration # 0
                      /\ RecordExpired(tstate[id].artificialDisaster, now)
             /\ \A dm \in AnyDurationSamples :
                   (dm < 0 /\ cityCreated /\ TriggerArtificialOutage(id, dm))
                      => RecordExpired(tstate'[id].artificialOutage, now')]_vars

\* More than a day after an outage without a duration was triggered at time
\* 0, a tick has just reported the transformer in outage and the record is
\* still the one stored by the trigger.
C36_Witness ==
    /\ cityCreated
    /\ now >= MAX_HISTORY
    /\ resp.updatedAt = now
    /\ tstate["T1"].artificialOutage = Some([startTime |-> 0, duration |-> 0])
    /\ MetricsOf(resp, "T1").isInOutage
    /\ nOps = MaxOps


----------------------------------------------------------------------------
(* Claims about the outage minutes of the last 24 hours *)

\* the time the city state was created: the timestamp of the flag seeded at
\* creation, which is retained for 24 hours
CreatedAt(ts) == ts.outageFlags[1].timestamp

\* an upper bound, in seconds, on the wall-clock time of the last 24 hours in
\* which the transformer can have been in outage: the time since its state
\* was created, and at most 24 hours
WallClockOutageBound(ts) == Min(MAX_HISTORY, now - CreatedAt(ts))

\* C37: the outageMinutes24h reported for a transformer never exceeds the
\* wall-clock minutes of the last 24 hours in which the transformer was in
\* outage, and so never exceeds 1440, whatever the polling cadence and the
\* number of clients.  (The reported value is in quarters of a minute, 15
\* seconds each.)
C37_OutageMinutesWithinWallClock ==
    cityCreated =>
        \A i \in DOMAIN resp.transformers :
            LET m == resp.transformers[i]
            IN  m.ID \notin SubstationIds
                   => /\ m.outageMinutes4 * REFRESH_INTERVAL_SECONDS
                            <= WallClockOutageBound(tstate[m.ID])
                      /\ m.outageMinutes4 * REFRESH_INTERVAL_SECONDS <= MAX_HISTORY


----------------------------------------------------------------------------
(* Claims about the creation of a city's state *)

\* the message of a control operation called with transformer id: the city is
\* looked up in the store before the transformer is looked up in the city
controlMessage(id) ==
    IF ~cityCreated THEN "City not found"
    ELSE IF id \notin DOMAIN tstate THEN "Transformer not found"
    ELSE "ok"

\* a step of one of the four control operations called with transformer id
CityControlOp(id) ==
    \/ TriggerArtificialOutage(id, 0)
    \/ ClearArtificialOutage(id)
    \/ \E dis \in CityDisasters :
          TriggerArtificialDisaster(dis.kind, id, 0, dis.parameters)
    \/ ClearArtificialDisaster(id)

\* the state of a transformer without its override records
WithoutOverrides(ts) ==
    [ts EXCEPT !.artificialOutage = None, !.artificialDisaster = None]

\* C38: the city state is created only by getDashboardData.  Before the
\* first call every control operation returns success = false with the
\* message 'City not found' and creates nothing; once the state exists it is
\* never created again: every tick continues the stored histories, every
\* control operation succeeds for each transformer id of the topology and
\* changes nothing but override records.
C38_CityCreatedByDashboardOnly ==
    /\ [](~cityCreated => tstate = <<>> /\ hstate = <<>> /\ meters = <<>>)
    /\ [][\A id \in TransformerIds :
             (~cityCreated /\ CityControlOp(id))
                => /\ lastResult' = Some(FALSE)
                   /\ controlMessage(id) = "City not found"
                   /\ ~cityCreated'
                   /\ UNCHANGED <<tstate, hstate, meters>>]_vars
    /\ [][(~cityCreated /\ cityCreated')
             => /\ nCalls' = nCalls + 1
                /\ calls' # calls
                /\ DOMAIN tstate' = TransformerIds]_vars
    /\ [][cityCreated
             => /\ cityCreated'
                /\ \A id \in TransformerIds :
                      /\ CreatedAt(tstate'[id]) = CreatedAt(tstate[id])
                      /\ tstate'[id].history[1] = tstate[id].history[1]
                      /\ CityControlOp(id)
                            => /\ lastResult' = Some(TRUE)
                               /\ controlMessage(id) = "ok"
                               /\ \A other \in TransformerIds :
                                     WithoutOverrides(tstate'[other])
                                        = WithoutOverrides(tstate[other])
                               /\ UNCHANGED <<hstate, meters>>
                      /\ TickStep
                            => Len(tstate'[id].history) = Len(tstate[id].history) + 1]_vars

\* After two completed getDashboardData calls a disaster has just been
\* triggered with success on the substation of the topology, and the
\* substation's history holds the seed of the creation and one entry per tick.
C38_Witness ==
    /\ cityCreated
    /\ calls = {}
    /\ nCalls = MaxCityTicks
    /\ lastResult = Some(TRUE)
    /\ \E id \in SubstationIds :
          /\ tstate[id].artificialDisaster # None
          /\ Len(tstate[id].history) = MaxCityTicks + 1


----------------------------------------------------------------------------
(* Claims about the spike detector in the first ticks *)

\* the largest window in which no value can lie more than zThreshold sample
\* standard deviations above the mean: among n samples a value is at most
\* (n - 1) / sqrt(n) deviations above their mean, and (n - 1)^2 <= 9 n holds
\* up to n = 10
SpikeWarmupSamples ==
    CHOOSE n \in 1..StoreWindowSize :
        /\ (n - 1) * (n - 1) <= ZThreshold * ZThreshold * n
        /\ n * n > ZThreshold * ZThreshold * (n + 1)

\* the pole and pad transformers, whose detectors' results are used
PolePadIds == {id \in TransformerIds : detectsAnomalies(CsvRow(id).EntityType)}

\* a log holds a SPIKE anomaly
SpikeLogged(ts) ==
    \E i \in DOMAIN ts.anomalies : ts.anomalies[i].anomalyType = "SPIKE"

\* C39: in each tick the transformer load is added to the rolling window
\* before SpikeDetector.detect is called, so the decision is the one made on
\* the window that holds the current value; no tick counts a spike breach
\* while the window holds 10 or fewer samples, whatever the loads; and no
\* SPIKE anomaly is emitted for a transformer in its first 10 ticks.
C39_NoSpikeWhileWarmingUp ==
    /\ [][TickStep =>
            \A id \in PolePadIds :
               LET w == tstate'[id].rollingStats
                   load == MetricsOf(resp', id).totalLoad
               IN  /\ w.values = Append(tstate[id].rollingStats.values, load)
                   /\ tstate'[id].spikeCounter
                         = SpikeDetect(tstate[id].spikeCounter, load, w).counter
                   /\ Len(w.values) <= SpikeWarmupSamples
                         => /\ ~SpikeBreach(load, w)
                            /\ tstate'[id].spikeCounter = 0]_vars
    /\ [](nCalls <= SpikeWarmupSamples
             => \A id \in DOMAIN tstate :
                   /\ ~SpikeLogged(tstate[id])
                   /\ tstate[id].spikeEvents = <<>>
                   /\ tstate[id].spikeCounter <= 1)

\* The tenth tick has just counted a breach for the pole transformer: its
\* window holds eleven samples, ten of them equal and the last one far above.
C39_Witness ==
    /\ calls = {}
    /\ nCalls = SpikeWarmupSamples
    /\ tstate["T1"].spikeCounter = 1
    /\ Len(tstate["T1"].rollingStats.values) = SpikeWarmupSamples + 1


----------------------------------------------------------------------------
(* Claims about the load shedding plan *)

\* the relief accumulated by the first k recommended transformers
RECURSIVE ReliefOfFirst(_, _)
ReliefOfFirst(selected, k) ==
    IF k = 0 THEN 0
    ELSE ReliefOfFirst(selected, k - 1) + selected[k].estimatedRelief

\* the transformers of a call's list
ListedTransformers(call) ==
    {call.transformers[i] : i \in DOMAIN call.transformers}

\* C40: with protectCriticalInfrastructure = true the plan never recommends a
\* transformer classified as critical infrastructure, even when the target
\* cannot be met without it; every recommended transformer has a
\* priorityScore in (0, 100]; the list is in non-increasing priorityScore
\* order with sheddingOrder 1..n; and selection stops at the first
\* transformer that brings the accumulated relief to at least the target.
C40_PlanSparesCriticalInfrastructure ==
    sheddingCall # None =>
        LET call == sheddingCall[1]
            selected == call.plan.recommendedTransformers
            target == call.plan.targetReduction
        IN  /\ \A i \in DOMAIN selected :
                  /\ \E t \in ListedTransformers(call) :
                        /\ t.ID = selected[i].transformerId
                        /\ call.constraints.protectCriticalInfrastructure
                              => ~isCriticalInfrastructure(t)
                  /\ selected[i].priorityScore > 0
                  /\ selected[i].priorityScore <= 100
                  /\ selected[i].sheddingOrder = i
                  /\ ReliefOfFirst(selected, i - 1) < target
                  /\ \A j \in DOMAIN selected :
                        /\ i < j => selected[i].priorityScore >= selected[j].priorityScore
                        /\ i # j => selected[i].transformerId # selected[j].transformerId
            /\ call.plan.actualReduction = ReliefOfFirst(selected, Len(selected))
            /\ (call.constraints.protectCriticalInfrastructure
                /\ call.plan.actualReduction < target)
                  => \A t \in ListedTransformers(call) :
                        isCriticalInfrastructure(t)
                           \/ \E i \in DOMAIN selected : selected[i].transformerId = t.ID

\* A plan made under protection for a list that holds the hospital's
\* transformer: both other transformers are recommended, the target is missed,
\* and the hospital's load alone would have met it.
C40_Witness ==
    /\ sheddingCall # None
    /\ sheddingCall[1].constraints.protectCriticalInfrastructure
    /\ sheddingCall[1].plan.actualReduction < sheddingCall[1].plan.targetReduction
    /\ Len(sheddingCall[1].plan.recommendedTransformers) = 2
    /\ \E t \in ListedTransformers(sheddingCall[1]) :
          /\ isCriticalInfrastructure(t)
          /\ t.currentLoadKw >= sheddingCall[1].plan.targetReduction

====
